---- MODULE Spec2Model ----
(***************************************************************************)
(* A model of the page-flip PDF reader: the desktop component              *)
(* EbookFlipbook (src/unnamed/part_000) and the touch component            *)
(* EbookFlipbookMobile (src/web/src/components/ebook/                      *)
(* EbookFlipbookMobile.tsx).                                               *)
(*                                                                         *)
(* Lengths are CSS pixels, kept as exact fractions <<n, d>> (d > 0, in     *)
(* lowest terms) where the source uses floating point.  The zoom factor    *)
(* is kept in hundredths (1.0 is 100), the precision of toFixed(2) in the  *)
(* generation key.  Times are milliseconds.                                *)
(***************************************************************************)
EXTENDS Integers, Sequences, FiniteSets, TLC

\* ------------------------------------------------------------ arithmetic

Min(a, b) == IF a <= b THEN a ELSE b
Max(a, b) == IF a >= b THEN a ELSE b
Abs(a) == IF a < 0 THEN -a ELSE a

RECURSIVE Gcd(_, _)
Gcd(a, b) == IF b = 0 THEN a ELSE Gcd(b, a % b)

\* The fraction n/d in lowest terms, d > 0.
Fr(n, d) ==
    LET g == Gcd(Abs(n), Abs(d))
        s == IF d < 0 THEN -1 ELSE 1
    IN  <<(s * n) \div g, (s * d) \div g>>

FrInt(n) == <<n, 1>>
FrMul(a, b) == Fr(a[1] * b[1], a[2] * b[2])
FrDiv(a, b) == Fr(a[1] * b[2], a[2] * b[1])
FrLE(a, b) == a[1] * b[2] <= b[1] * a[2]
FrLT(a, b) == a[1] * b[2] < b[1] * a[2]
FrMin(a, b) == IF FrLE(a, b) THEN a ELSE b
FrMax(a, b) == IF FrLE(b, a) THEN a ELSE b
\* Math.floor and Math.round (round half up) of a fraction.
FrFloor(a) == a[1] \div a[2]
FrRound(a) == (2 * a[1] + a[2]) \div (2 * a[2])

\* ------------------------------------------------------------ constants

\* EbookFlipbook (desktop)
controlsH == 84
padX == 24
padY == 16
NarrowBelow == 768
MinBox == 10
DebounceMs == 160
ZoomMin == 70
ZoomMax == 250
ZoomStep == 10
\* EbookFlipbookMobile
controlsHMobile == 60
padXMobile == 8
padYMobile == 8
NavGuardMs == 240
SettleMs == 220

\* renderOne
DprCap == 3
DprZoomCap == 160
\* touch handlers of the scroll surface (src/unnamed/part_001)
TapSlop == 10

\* ------------------------------------------------------------ bounds

\* Pages of the largest document.
MaxPages == 3
\* Pages of the document of the render model.
RenderPages == 2
\* Render effect runs (values of renderLoopId) of the render model.
MaxRuns == 3
MaxRunsReload == 2
\* renderWindow invocations that may be suspended at the same time.
MaxPasses == 2
\* Document loads (the first load and the reloads).
MaxLoads == 2
\* Frames waitForCanvas polls (180 in the source, see waitForCanvas).
maxFrames == 2
\* Updates a zoom button queues before React renders again.
MaxBatch == 3
\* Render effect runs of the view model.
MaxRunsView == 12
\* Pages of the largest document whose window is taken alone.
MaxWindowPages == 16
\* The grain of time in the navigation model, in ms.
TickMs == 50
\* Calls of flipNext/flipPrev in the navigation model.
MaxIntents == 3
\* Reconciliation callbacks of one kind pending at a time.
MaxSync == 2
\* Swipes in the navigation model.
MaxSwipes == 1
\* Device pixel ratios, in halves: 0 (none reported), 0.5, ... MaxDprHalves / 2.
MaxDprHalves == 8
\* Pointers that may press the page buttons at the same time.
MaxPointers == 2
\* Invocations of flipNext/flipPrev by the long-press repeat.
MaxCalls == 3
\* Fingers on the touch surface.
MaxFingers == 2
\* Requests counted in one burst.
MaxBurst == 3
\* The longest gap between two calls of navTo that is measured, in ms.
MaxGapMs == 300

\* ------------------------------------------------------------ viewport sizing

\* const isNarrow = containerWidth > 0 && containerWidth < 768
isNarrowOf(cw) == FrLT(FrInt(0), cw) /\ FrLT(cw, FrInt(NarrowBelow))

\* The available box: Math.max(0, container - controls - 2 * padding).
availableW(cw, px) == FrMax(FrInt(0), Fr(cw[1] - 2 * px * cw[2], cw[2]))
availableH(ch, ctl, py) == FrMax(FrInt(0), Fr(ch[1] - (ctl + 2 * py) * ch[2], ch[2]))

\* A page box that takes the whole available width in both layouts.
SizeFromSingle(aW, aH, narrow, ratio, zoom) ==
    IF ratio = <<>> \/ ratio[1] = 0 THEN <<>>
    ELSE IF FrLE(aW, FrInt(0)) \/ FrLE(aH, FrInt(0)) THEN <<>>
    ELSE LET baseW == FrMax(FrInt(0), FrMin(aW, FrDiv(aH, ratio)))
             w == FrMul(baseW, Fr(zoom, 100))
         IN  <<w, FrMul(w, ratio)>>

\* The body of the targetPageSize memo, for a layout that is narrow or not.
\* ratio is <<>> (null) or a fraction, zoom is in hundredths.  The result is
\* <<>> (null) or <<w, h>>.
SizeFrom(aW, aH, narrow, ratio, zoom) ==
    IF ratio = <<>> \/ ratio[1] = 0 THEN <<>>
    ELSE IF FrLE(aW, FrInt(0)) \/ FrLE(aH, FrInt(0)) THEN <<>>
    ELSE LET maxWByWidth == IF narrow THEN aW ELSE FrDiv(aW, FrInt(2))
             maxWByHeight == IF FrLT(FrInt(0), ratio) THEN FrDiv(aH, ratio) ELSE maxWByWidth
             baseW == FrMax(FrInt(0), FrMin(maxWByWidth, maxWByHeight))
             w == FrMul(baseW, Fr(zoom, 100))
             h == FrMul(w, ratio)
         IN  <<w, h>>

targetPageSize(cw, ch, ratio, zoom) ==
    SizeFrom(availableW(cw, padX), availableH(ch, controlsH, padY), isNarrowOf(cw), ratio, zoom)

\* The touch component is always a single-page layout.
targetPageSizeMobile(cw, ch, ratio, zoom) ==
    SizeFrom(availableW(cw, padXMobile), availableH(ch, controlsHMobile, padYMobile), TRUE, ratio, zoom)

\* sizeKey: `${Math.round(w)}x${Math.round(h)}`
sizeKey(size) == IF size = <<>> THEN <<>> ELSE <<FrRound(size[1]), FrRound(size[2])>>
\* currentSizeKey: `${Math.round(w)}x${Math.round(h)}@${viewZoom.toFixed(2)}`
currentSizeKey(size, zoom) == <<FrRound(size[1]), FrRound(size[2]), zoom>>

\* ------------------------------------------------------------ zoom

\* Math.round(x * 10) / 10 of a zoom in hundredths.
RoundTenth(z) == ((z + 5) \div 10) * 10
\* A step up that is not clamped.
zoomInFree(z) == RoundTenth(z + ZoomStep)
\* setViewZoom((z) => Math.min(2.5, Math.round((z + 0.1) * 10) / 10))
zoomIn(z) == Min(ZoomMax, RoundTenth(z + ZoomStep))
\* setViewZoom((z) => Math.max(0.7, Math.round((z - 0.1) * 10) / 10))
zoomOut(z) == Max(ZoomMin, RoundTenth(z - ZoomStep))

RECURSIVE Iterate(_, _, _)
Iterate(Op(_), k, z) == IF k = 0 THEN z ELSE Iterate(Op, k - 1, Op(z))

\* ------------------------------------------------------------ render window

\* The same pages, visited from the last to the first.
RangeDown(p, end) == [k \in 1..Max(0, end - p + 1) |-> end - k + 1]

RECURSIVE Range(_, _)
\* for (let p = start; p <= end; p++) want.add(p)
Range(p, end) == IF p > end THEN <<>> ELSE <<p>> \o Range(p + 1, end)

\* A window with the single-page buffers in both layouts.
renderWindowSingle(np, idxRef, narrow) ==
    LET currentPageNo == Max(0, Min(np - 1, idxRef)) + 1
    IN  [currentPageNo |-> currentPageNo,
         want |-> Range(Max(1, currentPageNo - 2), Min(np, currentPageNo + 4))]

\* The head of renderWindow: the current page number and the wanted pages, in
\* the order the Set iterates them.
renderWindowWant(np, idxRef, narrow) ==
    LET current == Max(0, Min(np - 1, idxRef))
        currentPageNo == current + 1
        start == Max(1, currentPageNo - (IF narrow THEN 2 ELSE 4))
        end == Min(np, currentPageNo + (IF narrow THEN 4 ELSE 10))
    IN  [currentPageNo |-> currentPageNo, want |-> Range(start, end)]

\* ------------------------------------------------------------ state

VARIABLES
    \* React state of EbookFlipbook
    containerWidth, containerHeight, \* useElementSize: fractions of a pixel
    doc,                \* 0 (null) or the handle of the loaded document
    numPages, pageIndex,
    pageSize,           \* <<>> (null) or <<w, h>>
    pageRatio,          \* <<>> (null) or height / width
    viewZoom,           \* hundredths
    status,             \* [state, rendered, total]
    \* refs
    flipbook,           \* flipbookRef and the widget behind it
    canvasRefs,         \* page number -> <<>> (null) or what the canvas shows
    renderedPages, inflightPages, renderLoopId, lastSizeKey,
    scheduleTimerRef, scheduleRenderRef, pageIndexRef,
    \* closures and the browser
    activeRun,          \* loopId of the effect run whose `cancelled` is false, or 0
    timers,             \* pending setTimeout(renderWindow) callbacks
    loads, liveLoad, loadSeq, \* load() calls still awaiting; the one not cancelled
    passes,             \* renderWindow calls suspended in a renderOne step
    \* history
    okPages,            \* pages rasterized to the end by a step begun in this generation
                        \* and since the last load() began
    staleLeft,          \* a step resumed after its effect run was torn down, and returned
    statusLog,          \* the states setStatus was called with, oldest first;
                        \* <<>> where they are not recorded
    \* a renderWindow head taken alone
    window,             \* [np, idx, narrow, out]: its inputs and the wanted pages
    \* guarded navigation of EbookFlipbookMobile, and its clocks
    nav,                \* see NoNav
    \* handlers taken alone
    raster,             \* [d, z, dpr]: a device pixel ratio, a zoom, renderOne's dpr
    autoFlip,           \* the long-press repeat of the page buttons, see NoAutoFlip
    touch               \* the touch handlers of the scroll surface, see NoTouch

vars == <<containerWidth, containerHeight, doc, numPages, pageIndex, pageSize,
          pageRatio, viewZoom, status, flipbook, canvasRefs, renderedPages,
          inflightPages, renderLoopId, lastSizeKey, scheduleTimerRef,
          scheduleRenderRef, pageIndexRef, activeRun, timers, loads, liveLoad,
          loadSeq, passes, okPages, staleLeft, statusLog, window, nav,
          raster, autoFlip, touch>>

\* The handlers taken alone, before any of them has run.
NoRaster == [d |-> 0, z |-> 0, dpr |-> <<>>]

\* ref: autoFlipTimerRef.current (0 is null); intervals: the setInterval
\* callbacks the browser holds, [id, dir]; seq: the last id handed out;
\* down: the button each pointer is held on; held: a press has started the
\* repeat and no release, cancel or leave has been handled since;
\* calls: flipNext/flipPrev invocations made by the repeat;
\* late: the last step was such an invocation and held was FALSE.
Pointers == 1..MaxPointers

NoAutoFlip ==
    [ref |-> 0, intervals |-> {}, seq |-> 0,
     down |-> [p \in Pointers |-> "none"],
     held |-> FALSE, calls |-> 0, late |-> FALSE]

\* listening: the effect has added its listeners to the scroll surface;
\* touches: the fingers on the screen; at: where each finger is;
\* touchStartX, touchStartY, isMultiTouch: the variables of the effect's closure;
\* multi: two or more fingers were down together since the screen was last
\* free of fingers; ends: the touchend events since then;
\* flip: what the last event made a handler ask of the widget.
Fingers == 1..MaxFingers

NoTouch ==
    [listening |-> FALSE,
     touches |-> {}, at |-> [f \in Fingers |-> <<0, 0>>],
     touchStartX |-> 0, touchStartY |-> 0, isMultiTouch |-> FALSE,
     multi |-> FALSE, ends |-> 0, flip |-> "none"]

Idle == raster = NoRaster /\ autoFlip = NoAutoFlip /\ touch = NoTouch

aside == <<window, raster, autoFlip, touch>>

\* The state as one record, so that a handler is a composition of functions
\* in the order of its statements.
Cur ==
    [containerWidth |-> containerWidth, containerHeight |-> containerHeight,
     doc |-> doc, numPages |-> numPages, pageIndex |-> pageIndex,
     pageSize |-> pageSize, pageRatio |-> pageRatio, viewZoom |-> viewZoom,
     status |-> status, flipbook |-> flipbook, canvasRefs |-> canvasRefs,
     renderedPages |-> renderedPages, inflightPages |-> inflightPages,
     renderLoopId |-> renderLoopId, lastSizeKey |-> lastSizeKey,
     scheduleTimerRef |-> scheduleTimerRef, scheduleRenderRef |-> scheduleRenderRef,
     pageIndexRef |-> pageIndexRef, activeRun |-> activeRun, timers |-> timers,
     loads |-> loads, liveLoad |-> liveLoad, loadSeq |-> loadSeq,
     passes |-> passes, okPages |-> okPages, staleLeft |-> staleLeft,
     statusLog |-> statusLog,
     \* which of the two components this is: EbookFlipbookMobile or EbookFlipbook
     mobile |-> nav.mobile]

ApplyState(s) ==
    /\ containerWidth' = s.containerWidth /\ containerHeight' = s.containerHeight
    /\ doc' = s.doc /\ numPages' = s.numPages /\ pageIndex' = s.pageIndex
    /\ pageSize' = s.pageSize /\ pageRatio' = s.pageRatio /\ viewZoom' = s.viewZoom
    /\ status' = s.status /\ flipbook' = s.flipbook /\ canvasRefs' = s.canvasRefs
    /\ renderedPages' = s.renderedPages /\ inflightPages' = s.inflightPages
    /\ renderLoopId' = s.renderLoopId /\ lastSizeKey' = s.lastSizeKey
    /\ scheduleTimerRef' = s.scheduleTimerRef /\ scheduleRenderRef' = s.scheduleRenderRef
    /\ pageIndexRef' = s.pageIndexRef /\ activeRun' = s.activeRun /\ timers' = s.timers
    /\ loads' = s.loads /\ liveLoad' = s.liveLoad /\ loadSeq' = s.loadSeq
    /\ passes' = s.passes /\ okPages' = s.okPages /\ staleLeft' = s.staleLeft
    /\ statusLog' = s.statusLog

\* A handler of the component: it leaves the window taken alone and the
\* navigation record as they are, but for the effect of the touch component on
\* [canUseFlipbook, syncPageIndexFromFlipbook], which asks for a frame to
\* run syncPageIndexFromFlipbook when canUseFlipbook has become true.
Apply(s) ==
    /\ ApplyState(s)
    /\ LET late == \E l \in loads : l.id # liveLoad /\ \A m \in s.loads : m.id # l.id
           n == [nav EXCEPT !.lateLoad = @ \/ late]
       IN  nav' = IF /\ nav.mobile
                     /\ (s.status.state # "error" /\ s.numPages > 0 /\ s.pageSize # <<>>)
                     /\ ~(status.state # "error" /\ numPages > 0 /\ pageSize # <<>>)
                  THEN [n EXCEPT !.frames = @ + 1] ELSE n
    /\ UNCHANGED aside

Pages == 1..MaxPages
Slots == 1..MaxPasses

St(state) == [state |-> state, rendered |-> 0, total |-> 0]
Rendering(r, t) == [state |-> "rendering", rendered |-> r, total |-> t]

NoFlipbook == [mounted |-> FALSE, key |-> <<>>, built |-> FALSE, page |-> 0]
NoCanvases == [p \in Pages |-> <<>>]
Blank == <<"blank">>
Partial == <<"partial">>
Done(d, p, key) == <<"done", d, p, key>>

\* A slot of `passes`: a renderWindow call and the renderOne step it awaits.
\*   pc       "canvas" (in waitForCanvas), "page" (await getPage), "raster"
\*            (await task.promise), "rcancel" (its task was cancelled)
\*   run, doc, np, key   loopId, pdfDoc, numPages, currentSizeKey of its effect run
\*   page, rest, curNo   the step's pageNo, the pages after it, currentPageNo
\*   frames   frames waitForCanvas has awaited
\*   detached the canvas the step holds is no longer the one in canvasRefs
\*   handle   renderTasks[page - 1] of its run is this step's task
\*   fresh    no generation change since its task started
FreePass ==
    [pc |-> "free", run |-> 0, doc |-> 0, np |-> 0, key |-> <<>>, page |-> 0,
     rest |-> <<>>, curNo |-> 0, frames |-> 0, detached |-> FALSE,
     handle |-> FALSE, fresh |-> FALSE]

\* setStatus(st)
setStatus(s, st) ==
    [s EXCEPT !.status = st,
              !.statusLog = IF @ = <<>> THEN @ ELSE Append(@, st.state)]

\* isNarrow; the touch component has one layout, the single page.
isNarrow(s) == s.mobile \/ isNarrowOf(s.containerWidth)

\* The targetPageSize memo of the component.
targetPageSizeOf(s) ==
    IF s.mobile
    THEN targetPageSizeMobile(s.containerWidth, s.containerHeight, s.pageRatio, s.viewZoom)
    ELSE targetPageSize(s.containerWidth, s.containerHeight, s.pageRatio, s.viewZoom)

\* const canUseFlipbook = status.state !== 'error' && numPages > 0 && pageSize
\*                        && pageSize.w > 10 && pageSize.h > 10
canUseFlipbook(s) ==
    /\ s.status.state # "error"
    /\ s.numPages > 0
    /\ s.pageSize # <<>>
    /\ FrLT(FrInt(MinBox), s.pageSize[1])
    /\ FrLT(FrInt(MinBox), s.pageSize[2])

\* <HTMLFlipBook key={`${sizeKey ?? 'no-size'}-${isNarrow ? 'single' : 'spread'}`}>,
\* in the touch component key={`${sizeKey ?? 'no-size'}-mobile-${viewZoom.toFixed(2)}`}
flipbookKey(s) ==
    IF s.mobile THEN <<sizeKey(s.pageSize), s.viewZoom>>
    ELSE <<sizeKey(s.pageSize), isNarrow(s)>>

\* The canvases a step holds are those of the widget that was unmounted.
DetachAll(ps) ==
    [i \in Slots |->
        IF ps[i].pc \in {"page", "raster", "rcancel"}
        THEN [ps[i] EXCEPT !.detached = TRUE] ELSE ps[i]]

\* React's commit of the JSX: the widget is unmounted, mounted or mounted anew
\* (its key changed); a new widget starts at startPage and attaches its
\* canvases later (WidgetBuild).
Reconcile(s) ==
    IF ~canUseFlipbook(s)
    THEN IF s.flipbook.mounted
         THEN [s EXCEPT !.flipbook = NoFlipbook, !.canvasRefs = NoCanvases,
                        !.passes = DetachAll(@)]
         ELSE s
    ELSE IF ~s.flipbook.mounted \/ s.flipbook.key # flipbookKey(s)
         THEN [s EXCEPT !.flipbook = [mounted |-> TRUE, key |-> flipbookKey(s),
                                      built |-> FALSE, page |-> s.pageIndex],
                        !.canvasRefs = NoCanvases,
                        !.passes = DetachAll(@)]
         ELSE s

\* ------------------------------------------------------------ render effect

\* A `cancelled` that no cleanup sets.
CancelledNever(s, run) == FALSE

\* `cancelled` of the closure of effect run `run`.
Cancelled(s, run) == run # s.activeRun

ClearTimer(s) ==
    IF s.scheduleTimerRef # 0
    THEN [s EXCEPT !.timers = {t \in @ : t.id # s.scheduleTimerRef}]
    ELSE s

\* window.setTimeout returns an id no pending timer has.
NewTimerId(s) == CHOOSE id \in 1..(Cardinality(s.timers) + 1) :
                    /\ \A t \in s.timers : t.id # id
                    /\ \A j \in 1..(id - 1) : \E t \in s.timers : t.id = j

\* What the closures of one effect run captured: loopId, pdfDoc, numPages,
\* currentSizeKey, isNarrow.  run = 0 stands for no closure (null).
NoClosure == [run |-> 0, doc |-> 0, np |-> 0, key |-> <<>>, narrow |-> FALSE]

\* A schedule that arms a timer and leaves the pending one armed.
scheduleKeep(s, cl) ==
    IF Cancelled(s, cl.run) THEN s
    ELSE LET id == NewTimerId(s)
         IN  [s EXCEPT !.timers = @ \cup {[id |-> id, cl |-> cl, left |-> DebounceMs]},
                       !.scheduleTimerRef = id]

\* const schedule = () => { ... } of the effect run with closure cl.  The
\* timer's callback is that run's renderWindow, `left` ms from now.
schedule(s, cl) ==
    IF Cancelled(s, cl.run) THEN s
    ELSE LET c == ClearTimer(s)
             id == NewTimerId(c)
         IN  [c EXCEPT !.timers = @ \cup {[id |-> id, cl |-> cl, left |-> DebounceMs]},
                       !.scheduleTimerRef = id]

\* The cleanup the effect returned: cancelled = true, the schedule ref and
\* the timer cleared, cancel() on every task of renderTasks.
EffectCleanup(s) ==
    IF s.activeRun = 0 THEN s
    ELSE LET c == ClearTimer(s)
         IN  [c EXCEPT !.activeRun = 0,
                       !.scheduleRenderRef = NoClosure,
                       !.passes = [i \in Slots |->
                           IF /\ @[i].pc = "raster"
                              /\ @[i].run = s.activeRun
                              /\ @[i].handle
                           THEN [@[i] EXCEPT !.pc = "rcancel"] ELSE @[i]]]

\* A changeover that stores the key and blanks the canvases but keeps the sets.
ChangeoverKeepsSets(s, key) ==
    IF s.lastSizeKey = key THEN s
    ELSE [s EXCEPT !.lastSizeKey = key,
                   !.canvasRefs = [p \in Pages |-> IF @[p] = <<>> THEN <<>> ELSE Blank],
                   !.okPages = {},
                   !.passes = [i \in Slots |-> [@[i] EXCEPT !.fresh = FALSE]]]

\* A changeover that does not compare the keys.
ChangeoverAlways(s, key) ==
    [s EXCEPT !.renderedPages = {},
              !.inflightPages = {},
              !.lastSizeKey = key,
              !.canvasRefs = [p \in Pages |-> IF @[p] = <<>> THEN <<>> ELSE Blank],
              !.okPages = {},
              !.passes = [i \in Slots |-> [@[i] EXCEPT !.fresh = FALSE]]]

\* if (lastSizeKeyRef.current !== currentSizeKey) { ... }
Changeover(s, key) ==
    IF s.lastSizeKey = key THEN s
    ELSE [s EXCEPT !.renderedPages = {},
                   !.inflightPages = {},
                   !.lastSizeKey = key,
                   !.canvasRefs = [p \in Pages |-> IF @[p] = <<>> THEN <<>> ELSE Blank],
                   !.okPages = {},
                   !.passes = [i \in Slots |-> [@[i] EXCEPT !.fresh = FALSE]]]

\* An effect body that takes no new loop id.
EffectBodySameId(s) ==
    IF s.doc = 0 \/ s.pageSize = <<>> \/ s.numPages <= 0 THEN s
    ELSE LET loopId == s.renderLoopId
             key == currentSizeKey(s.pageSize, s.viewZoom)
             cl == [run |-> loopId, doc |-> s.doc, np |-> s.numPages, key |-> key,
                    narrow |-> isNarrow(s)]
             s1 == [s EXCEPT !.renderLoopId = loopId, !.activeRun = loopId]
             s2 == Changeover(s1, key)
             s3 == [s2 EXCEPT !.scheduleRenderRef = cl]
         IN  schedule(s3, cl)

\* The effect's body, up to the first schedule().
EffectBody(s) ==
    IF s.doc = 0 \/ s.pageSize = <<>> \/ s.numPages <= 0 THEN s
    ELSE LET loopId == s.renderLoopId + 1
             key == currentSizeKey(s.pageSize, s.viewZoom)
             cl == [run |-> loopId, doc |-> s.doc, np |-> s.numPages, key |-> key,
                    narrow |-> isNarrow(s)]
             s1 == [s EXCEPT !.renderLoopId = loopId, !.activeRun = loopId]
             s2 == Changeover(s1, key)
             s3 == [s2 EXCEPT !.scheduleRenderRef = cl]
         IN  schedule(s3, cl)

\* ------------------------------------------------------------ render pass

FreeSlot(s, i) == [s EXCEPT !.passes[i] = FreePass]

\* After the loop of renderWindow.
EndPass(s, i) ==
    LET n == s.passes[i].curNo
        ready == n \in s.renderedPages \/ (n + 1) \in s.renderedPages
                    \/ (n - 1) \in s.renderedPages
    IN  FreeSlot(IF ready THEN setStatus(s, St("ready")) ELSE s, i)

RECURSIVE Loop(_, _)
\* renderWindow from the top of an iteration of `for (const p of want)`, with
\* passes[i].rest the pages still to visit, until the pass is suspended in a
\* step or ends.  A step that returns without a real wait (the page is
\* Rendered or InFlight) continues the loop in the same task.
Loop(s, i) ==
    LET ps == s.passes[i]
    IN  IF ps.rest = <<>> THEN EndPass(s, i)
        ELSE IF Cancelled(s, ps.run) THEN FreeSlot(s, i)
        ELSE LET pageNo == Head(ps.rest)
                 next == [s EXCEPT !.passes[i].rest = Tail(ps.rest),
                                   !.passes[i].page = pageNo]
                 \* setStatus after `await renderOne(p)` (not in the touch
                 \* component)
                 skipped == IF s.mobile THEN next
                            ELSE setStatus(next, Rendering(Cardinality(s.renderedPages), ps.np))
             IN  IF pageNo < 1 \/ pageNo > ps.np THEN Loop(skipped, i)
                 ELSE IF s.renderLoopId # ps.run THEN Loop(skipped, i)
                 ELSE IF pageNo \in s.renderedPages \/ pageNo \in s.inflightPages
                      THEN Loop(skipped, i)
                 ELSE \* inflightPages.add(pageNo); waitForCanvas, first frame
                      IF s.canvasRefs[pageNo] # <<>>
                      THEN [next EXCEPT !.inflightPages = @ \cup {pageNo},
                                         !.passes[i].pc = "page",
                                         !.passes[i].frames = 0,
                                         !.passes[i].detached = FALSE,
                                         !.passes[i].handle = FALSE,
                                         !.passes[i].fresh = FALSE]
                      ELSE [next EXCEPT !.inflightPages = @ \cup {pageNo},
                                         !.passes[i].pc = "canvas",
                                         !.passes[i].frames = 0,
                                         !.passes[i].detached = FALSE,
                                         !.passes[i].handle = FALSE,
                                         !.passes[i].fresh = FALSE]

\* renderOne returned to renderWindow: the status line after the await, then
\* the next iteration.
AfterStep(s, i) ==
    Loop(IF s.mobile THEN s
         ELSE setStatus(s, Rendering(Cardinality(s.renderedPages), s.passes[i].np)), i)

\* A step that ends without the delete of `finally`.
LeaveStepKeep(s, i) == AfterStep(s, i)

\* The end of a step on every path through `finally` or an early return that
\* deletes the page from inflightPages.
LeaveStep(s, i) ==
    AfterStep([s EXCEPT !.inflightPages = @ \ {s.passes[i].page}], i)

\* The step finds its run cancelled or superseded when it resumes: it
\* returns.
LeaveStale(s, i) == LeaveStep([s EXCEPT !.staleLeft = TRUE], i)

RECURSIVE DrainFrom(_, _)
\* The continuations of the tasks the cleanup cancelled (the promise rejects
\* with RenderingCancelledException): catch, finally, back in renderWindow.
DrainFrom(s, i) ==
    IF i > MaxPasses THEN s
    ELSE IF s.passes[i].pc = "rcancel" THEN DrainFrom(LeaveStep(s, i), i + 1)
    ELSE DrainFrom(s, i + 1)

DrainCancelled(s) == DrainFrom(s, 1)

\* ------------------------------------------------------------ React commit

\* One render and commit: the JSX, the pageIndexRef effect, the render effect
\* when one of [doc, numPages, pageSize, isNarrow, viewZoom] changed.
RenderCommit(prev, s, sizeNew) ==
    LET s1 == Reconcile(s)
        s2 == IF s.pageIndex # prev.pageIndex
              THEN [s1 EXCEPT !.pageIndexRef = s.pageIndex] ELSE s1
        depsChanged == \/ s.doc # prev.doc
                       \/ s.numPages # prev.numPages
                       \/ sizeNew
                       \/ isNarrow(s) # isNarrow(prev)
                       \/ s.viewZoom # prev.viewZoom
    IN  IF depsChanged THEN EffectBody(EffectCleanup(s2)) ELSE s2

\* The targetPageSize memo is computed anew (a new object) when one of its
\* dependencies changed.
MemoChanged(prev, s) ==
    \/ s.containerWidth # prev.containerWidth
    \/ s.containerHeight # prev.containerHeight
    \/ s.pageRatio # prev.pageRatio
    \/ s.viewZoom # prev.viewZoom

\* What React does after a handler left the state at s (it was prev at the
\* last commit): render and commit; the effect copying targetPageSize into
\* pageSize (`if (!targetPageSize) return`), which renders again; then the
\* microtasks of the cancelled tasks.
Commit(prev, s) ==
    LET a == RenderCommit(prev, s, s.pageSize # prev.pageSize)
        tps == targetPageSizeOf(s)
    IN  IF MemoChanged(prev, s) /\ tps # <<>>
        THEN DrainCancelled(RenderCommit(a, [a EXCEPT !.pageSize = tps], TRUE))
        ELSE DrainCancelled(a)

\* ------------------------------------------------------------ actions

InitState ==
    /\ containerWidth = FrInt(0) /\ containerHeight = FrInt(0)
    /\ doc = 0 /\ numPages = 0 /\ pageIndex = 0
    /\ pageSize = <<>> /\ pageRatio = <<>> /\ viewZoom = 100
    /\ status = St("loading")
    /\ flipbook = NoFlipbook /\ canvasRefs = NoCanvases
    /\ renderedPages = {} /\ inflightPages = {}
    /\ renderLoopId = 0 /\ lastSizeKey = <<>>
    /\ scheduleTimerRef = 0 /\ scheduleRenderRef = NoClosure /\ pageIndexRef = 0
    /\ activeRun = 0 /\ timers = {}
    /\ loads = {[id |-> 1, pc |-> "open"]} /\ liveLoad = 1 /\ loadSeq = 1
    /\ passes = [i \in Slots |-> FreePass]
    /\ okPages = {}
    /\ staleLeft = FALSE
    /\ statusLog = <<>>

NoWindow == [np |-> 0, idx |-> 0, narrow |-> FALSE, out |-> <<>>]

\* The navigation record.
\*   since     now - lastNavAtRef.current in ms, NavGuardMs standing for more
\*   frames    syncAfterFlip callbacks waiting for the next animation frame
\*   settle    ms left of the pending syncAfterFlip timers, oldest first
\* and, as history,
\*   intents, dir, last   the calls of navTo so far, the direction and the
\*                        outcome of the last one
\*   turns     the calls of navTo that asked the widget to turn
\*   swipes    the swipes so far
\*   sinceIntent          ms since the last call of navTo, MaxGapMs for more
\*   sinceSchedule        ms since the last call of schedule, DebounceMs for more
\*   burst, lastBurst     calls of schedule since the last pass began; those
\*                        before that pass
\*   passesSince, passAt  passes begun since the last call of schedule;
\*                        sinceSchedule when the last pass began
\*   prev, prevDir        the outcome and the direction of the call of navTo
\*                        before the last
\*   gap                  sinceIntent when the last call of navTo came
\*   from, prevFrom       the widget's page when the last call of navTo came,
\*                        and the one before it
\*   reported             the index the widget reported last, by onFlip or to
\*                        syncPageIndexFromFlipbook
\*   armedAt              pageIndexRef when schedule was last called
\*   centre               currentPageNo of the last pass begun, 0 for none
\*   calm                 every call of navTo so far came with the status ready,
\*                        no timer pending and no pass running in a live
\*                        effect run
\* and mobile: the component is EbookFlipbookMobile; lateLoad (history): a
\* load() whose effect had been cleaned up has resumed and returned.
NoNav ==
    [since |-> NavGuardMs, frames |-> 0, settle |-> <<>>,
     intents |-> 0, dir |-> 0, last |-> "none", turns |-> 0, swipes |-> 0,
     sinceIntent |-> MaxGapMs, sinceSchedule |-> DebounceMs,
     burst |-> 0, lastBurst |-> 1, passesSince |-> 1, passAt |-> DebounceMs,
     prev |-> "none", prevDir |-> 0, gap |-> MaxGapMs, from |-> 0, prevFrom |-> 0,
     reported |-> 0, armedAt |-> 0, centre |-> 0,
     mobile |-> FALSE, calm |-> TRUE, lateLoad |-> FALSE]

Init == InitState /\ window = NoWindow /\ Idle /\ nav = NoNav

\* The ResizeObserver callback: setSize(contentRect).
Resize(c) ==
    /\ <<containerWidth, containerHeight>> # c
    /\ Apply(Commit(Cur, [Cur EXCEPT !.containerWidth = c[1], !.containerHeight = c[2]]))

\* The effect on [pdfUrl, reloadNonce] runs again: its cleanup cancels the
\* load before, load() starts.
Reload ==
    /\ loadSeq < MaxLoads
    /\ Apply(Commit(Cur, [setStatus(Cur, St("loading")) EXCEPT
                                     !.loadSeq = loadSeq + 1,
                                     !.liveLoad = loadSeq + 1,
                                     !.loads = @ \cup {[id |-> loadSeq + 1, pc |-> "open"]},
                                     !.doc = 0, !.numPages = 0, !.pageIndex = 0,
                                     !.pageSize = <<>>, !.pageRatio = <<>>,
                                     !.okPages = {},
                                     !.passes = [i \in Slots |->
                                                    [@[i] EXCEPT !.fresh = FALSE]]]))

\* A load() that never finds itself cancelled.
loadCancelledNever(l) == FALSE

\* `cancelled` of the effect run that called load(): its cleanup has run.
loadCancelled(l) == l.id # liveLoad

\* load() after `await task.promise`: a document of n pages.
LoadOpened(l, n) ==
    /\ l \in loads /\ l.pc = "open"
    /\ IF loadCancelled(l)
       THEN Apply([Cur EXCEPT !.loads = @ \ {l}])
       ELSE Apply(Commit(Cur, [Cur EXCEPT !.loads = (@ \ {l}) \cup {[l EXCEPT !.pc = "first"]},
                                          !.doc = l.id, !.numPages = n]))

\* load() after `await loaded.getPage(1)`: r is vp.height / vp.width, or <<>>
\* (null) for a page of width 0.
LoadFirstPage(l, r) ==
    /\ l \in loads /\ l.pc = "first"
    /\ IF loadCancelled(l)
       THEN Apply([Cur EXCEPT !.loads = @ \ {l}])
       ELSE Apply(Commit(Cur, [setStatus(Cur, St("ready")) EXCEPT
                                          !.loads = @ \ {l},
                                          !.pageRatio = r]))

\* load() in its catch: the import, getDocument or getPage(1) failed.
LoadFail(l) ==
    /\ l \in loads
    /\ IF loadCancelled(l)
       THEN Apply([Cur EXCEPT !.loads = @ \ {l}])
       ELSE Apply(Commit(Cur, [setStatus(Cur, St("error")) EXCEPT
                                          !.loads = @ \ {l}]))

\* k clicks on the zoom-in button, enabled as of the last render.
ZoomIn(k) ==
    /\ canUseFlipbook(Cur) /\ viewZoom < ZoomMax
    /\ Apply(Commit(Cur, [Cur EXCEPT !.viewZoom = Iterate(zoomIn, k, @)]))

ZoomOut(k) ==
    /\ canUseFlipbook(Cur) /\ viewZoom > ZoomMin
    /\ Apply(Commit(Cur, [Cur EXCEPT !.viewZoom = Iterate(zoomOut, k, @)]))

\* The widget builds its DOM: the canvas ref callbacks run.
WidgetBuild ==
    /\ flipbook.mounted /\ ~flipbook.built
    /\ Apply([Cur EXCEPT !.flipbook.built = TRUE,
                         !.canvasRefs = [p \in Pages |-> IF p <= numPages THEN Blank ELSE <<>>]])

\* The widget turns (a drag, a click, flipNext/flipPrev by a button) by one
\* page, or by a spread, and reports it: onFlip.
Flip(dir) ==
    /\ flipbook.mounted /\ flipbook.built
    /\ LET step == IF isNarrow(Cur) THEN 1 ELSE 2
           data == flipbook.page + dir * step
       IN  /\ data >= 0 /\ data <= numPages - 1
           /\ LET s1 == [Cur EXCEPT !.flipbook.page = data,
                                    !.pageIndex = data,
                                    !.pageIndexRef = data]
                  s2 == IF s1.scheduleRenderRef.run # 0
                        THEN schedule(s1, s1.scheduleRenderRef) ELSE s1
              IN  Apply(Commit(Cur, s2))

FreeSlotsOf(s) == {i \in Slots : s.passes[i].pc = "free"}
FreeSlots == FreeSlotsOf(Cur)

\* A window around the first page, whatever the position is.
passWindowFirst(s, t) == renderWindowWant(t.cl.np, 0, t.cl.narrow)

\* The head of renderWindow: it reads pageIndexRef.current when it runs.
passWindow(s, t) == renderWindowWant(t.cl.np, s.pageIndexRef, t.cl.narrow)

\* renderWindow of the run that armed timer t, up to its first real wait.
StartPass(s, t) ==
    LET i == CHOOSE j \in FreeSlotsOf(s) : \A k \in FreeSlotsOf(s) : j <= k
        w == passWindow(s, t)
        s1 == [setStatus(s, Rendering(Cardinality(s.renderedPages), t.cl.np)) EXCEPT
                        !.timers = @ \ {t},
                        !.passes[i] = [FreePass EXCEPT !.pc = "loop",
                                         !.run = t.cl.run, !.doc = t.cl.doc,
                                         !.np = t.cl.np, !.key = t.cl.key,
                                         !.curNo = w.currentPageNo,
                                         !.rest = w.want]]
    IN  Commit(s, Loop(s1, i))

\* The debounce timer fires, after whatever time the browser took.
TimerFire(t) ==
    /\ t \in timers
    /\ FreeSlots # {}
    /\ Apply(StartPass(Cur, t))

\* An animation frame resolves the wait of waitForCanvas.
CanvasFrame(i) ==
    /\ passes[i].pc = "canvas"
    /\ LET ps == passes[i]
           s1 == IF ps.frames + 1 >= maxFrames THEN LeaveStep(Cur, i)
                 ELSE IF Cancelled(Cur, ps.run) THEN LeaveStale(Cur, i)
                 ELSE IF renderLoopId # ps.run THEN LeaveStale(Cur, i)
                 ELSE IF canvasRefs[ps.page] # <<>>
                      THEN [Cur EXCEPT !.passes[i].pc = "page"]
                 ELSE [Cur EXCEPT !.passes[i].frames = ps.frames + 1]
       IN  Apply(Commit(Cur, s1))

\* Another raster of the same page runs on the canvas in canvasRefs.
PaintedBy(s, i) ==
    \E j \in Slots : /\ j # i
                     /\ s.passes[j].pc = "raster"
                     /\ s.passes[j].page = s.passes[i].page
                     /\ ~s.passes[j].detached

\* renderOne after `await pdfDoc.getPage(pageNo)`; ctx is whether
\* canvas.getContext('2d') gave a context.
PageResolved(i, ctx) ==
    /\ passes[i].pc = "page"
    /\ LET ps == passes[i]
           s1 == IF Cancelled(Cur, ps.run) THEN LeaveStale(Cur, i)
                 ELSE IF ~ctx THEN LeaveStep(Cur, i)
                 ELSE [Cur EXCEPT
                        !.passes = [j \in Slots |->
                            IF j = i
                            THEN [@[j] EXCEPT !.pc = "raster", !.handle = TRUE, !.fresh = TRUE]
                            ELSE IF @[j].run = ps.run /\ @[j].page = ps.page
                                 THEN [@[j] EXCEPT !.handle = FALSE]
                                 ELSE @[j]],
                        !.canvasRefs[ps.page] = IF ps.detached THEN @ ELSE Partial]
       IN  Apply(Commit(Cur, s1))

\* getPage rejects: the exception leaves renderOne and renderWindow.
PageRejected(i) ==
    /\ passes[i].pc = "page"
    /\ Apply(Commit(Cur, FreeSlot(Cur, i)))

\* task.promise resolves: renderedPages.add(pageNo), then finally.
RasterDone(i) ==
    /\ passes[i].pc = "raster"
    /\ LET ps == passes[i]
           s1 == [Cur EXCEPT
                    !.renderedPages = @ \cup {ps.page},
                    !.okPages = IF ps.fresh THEN @ \cup {ps.page} ELSE @,
                    !.canvasRefs[ps.page] =
                        IF ps.detached THEN @
                        ELSE IF PaintedBy(Cur, i) THEN Partial
                        ELSE Done(ps.doc, ps.page, ps.key)]
       IN  Apply(Commit(Cur, LeaveStep(s1, i)))

\* task.promise rejects with an error that is no cancellation: logged.
RasterFail(i) ==
    /\ passes[i].pc = "raster"
    /\ Apply(Commit(Cur, LeaveStep(Cur, i)))

\* ------------------------------------------------------------ the render model

\* Container boxes: not laid out; a single-page and a spread layout whose
\* page box is bound by the height (the same box in both); a taller
\* single-page layout.
Containers ==
    {<<FrInt(0), FrInt(0)>>, <<FrInt(760), FrInt(584)>>,
     <<FrInt(800), FrInt(584)>>, <<FrInt(760), FrInt(700)>>}
Ratios == {Fr(3, 2)}
PageCounts == {RenderPages}

\* The render engine under resizes, forward flips and every outcome of its
\* asynchronous steps.  (Reloads are in SpecReload, the zoom buttons in
\* SpecView.)
Next ==
    \/ \E c \in Containers : Resize(c) /\ renderLoopId' <= MaxRuns
    \/ \E l \in loads, n \in PageCounts : LoadOpened(l, n)
    \/ \E l \in loads, r \in Ratios : LoadFirstPage(l, r) /\ renderLoopId' <= MaxRuns
    \/ \E l \in loads : LoadFail(l)
    \/ WidgetBuild
    \/ Flip(1)
    \/ \E t \in timers : TimerFire(t)
    \/ \E i \in Slots : CanvasFrame(i)
    \/ \E i \in Slots, ctx \in BOOLEAN : PageResolved(i, ctx)
    \/ \E i \in Slots : PageRejected(i)
    \/ \E i \in Slots : RasterDone(i)
    \/ \E i \in Slots : RasterFail(i)

Spec == Init /\ [][Next]_vars

\* ------------------------------------------------------------ the calm model

\* The render engine when nothing fails: the document loads, the widget has
\* built its canvases before a pass starts (no step has to wait for a
\* canvas), every page handle comes with a drawing context and every raster
\* completes.
NextCalm ==
    \/ \E c \in Containers : Resize(c) /\ renderLoopId' <= MaxRuns
    \/ \E l \in loads, n \in PageCounts : LoadOpened(l, n)
    \/ \E l \in loads, r \in Ratios : LoadFirstPage(l, r) /\ renderLoopId' <= MaxRuns
    \/ WidgetBuild
    \/ Flip(1)
    \/ \E t \in timers : flipbook.built /\ TimerFire(t)
    \/ \E i \in Slots : PageResolved(i, TRUE)
    \/ \E i \in Slots : RasterDone(i)

SpecCalm == Init /\ [][NextCalm]_vars

\* ------------------------------------------------------------ the reload model

\* Two single-page layouts of different page boxes.
ContainersReload == {<<FrInt(760), FrInt(584)>>, <<FrInt(760), FrInt(700)>>}

\* The render engine under reloads of the document as well.
NextReload ==
    \/ \E c \in ContainersReload : Resize(c) /\ renderLoopId' <= MaxRunsReload
    \/ Reload
    \/ \E l \in loads, n \in PageCounts : LoadOpened(l, n)
    \/ \E l \in loads, r \in Ratios : LoadFirstPage(l, r) /\ renderLoopId' <= MaxRunsReload
    \/ \E l \in loads : LoadFail(l)
    \/ WidgetBuild
    \/ Flip(1)
    \/ \E t \in timers : TimerFire(t)
    \/ \E i \in Slots : CanvasFrame(i)
    \/ \E i \in Slots, ctx \in BOOLEAN : PageResolved(i, ctx)
    \/ \E i \in Slots : PageRejected(i)
    \/ \E i \in Slots : RasterDone(i)
    \/ \E i \in Slots : RasterFail(i)

SpecReload == Init /\ [][NextReload]_vars

\* A reload that opens a shorter document: the first has RenderPages pages,
\* the ones after it a single page.  Its steps succeed.
pagesOfLoad(l) == IF l.id = 1 THEN RenderPages ELSE 1

NextShrink ==
    \/ \E c \in ContainersReload : Resize(c) /\ renderLoopId' <= MaxRunsReload
    \/ Reload
    \/ \E l \in loads : LoadOpened(l, pagesOfLoad(l))
    \/ \E l \in loads, r \in Ratios : LoadFirstPage(l, r) /\ renderLoopId' <= MaxRunsReload
    \/ WidgetBuild
    \/ \E t \in timers : TimerFire(t)
    \/ \E i \in Slots : CanvasFrame(i)
    \/ \E i \in Slots : PageResolved(i, TRUE)
    \/ \E i \in Slots : RasterDone(i)

SpecShrink == Init /\ [][NextShrink]_vars

\* ------------------------------------------------------------ the view model

\* Container boxes: not laid out; too small for a page box; a single-page
\* layout and a spread, both bound by the width (the touch component's box
\* in the latter is bound by the height).
ContainersView ==
    {<<FrInt(0), FrInt(0)>>, <<FrInt(40), FrInt(40)>>, <<FrInt(448), FrInt(1116)>>,
     <<FrInt(1024), FrInt(1200)>>}
\* Page ratios: 3:2, an A4 sheet (297:210, 1.4142...), and none (a first page
\* of width 0).
RatiosView == {Fr(3, 2), Fr(99, 70), <<>>}

\* Sizing and zoom: resizes and the two zoom buttons; the debounce timer
\* never fires.
NextView ==
    \/ \E c \in ContainersView : Resize(c) /\ renderLoopId' <= MaxRunsView
    \/ \E l \in loads, n \in PageCounts : LoadOpened(l, n)
    \/ \E l \in loads, r \in RatiosView : LoadFirstPage(l, r) /\ renderLoopId' <= MaxRunsView
    \/ \E l \in loads : LoadFail(l)
    \/ \E k \in 1..MaxBatch : ZoomIn(k) /\ renderLoopId' <= MaxRunsView
    \/ \E k \in 1..MaxBatch : ZoomOut(k) /\ renderLoopId' <= MaxRunsView
    \/ WidgetBuild

SpecView == Init /\ [][NextView]_vars

\* ------------------------------------------------------------ the window model

\* Every page count up to MaxWindowPages, every index into it, both layouts.
WindowInputs ==
    {[np |-> n, idx |-> c, narrow |-> b, out |-> <<>>] :
        n \in 1..MaxWindowPages, c \in 0..(MaxWindowPages - 1), b \in BOOLEAN}

InitWindow ==
    /\ InitState /\ nav = NoNav /\ Idle
    /\ window \in {w \in WindowInputs : w.idx <= w.np - 1}

\* The head of renderWindow at the position window.idx.
TakeWindow ==
    /\ window.out = <<>>
    /\ window' = [window EXCEPT !.out =
                    renderWindowWant(window.np, window.idx, window.narrow).want]
    /\ ApplyState(Cur) /\ UNCHANGED <<nav, raster, autoFlip, touch>>

NextWindow == TakeWindow

SpecWindow == InitWindow /\ [][NextWindow]_vars

\* ------------------------------------------------------------ the navigation model

\* A state s of the component with its navigation record n.
\* syncAfterFlip: one callback on the next frame, one after SettleMs.
syncAfterFlip(sn) ==
    [sn EXCEPT !.n.frames = @ + 1, !.n.settle = Append(@, SettleMs)]

\* A navigation that asks for no render pass.
requestRenderNever(sn) == sn

\* scheduleRenderRef.current?.()
requestRender(sn) ==
    IF sn.s.scheduleRenderRef.run = 0 \/ Cancelled(sn.s, sn.s.scheduleRenderRef.run)
    THEN sn
    ELSE [sn EXCEPT !.s = schedule(@, @.scheduleRenderRef),
                    !.n.armedAt = sn.s.pageIndexRef,
                    !.n.sinceSchedule = 0,
                    !.n.passesSince = 0,
                    !.n.burst = Min(MaxBurst, @ + 1)]

\* onFlip of the touch component: setPageIndex(e.data), the ref, a render
\* request, syncAfterFlip.
onFlipMobile(sn, data) ==
    syncAfterFlip(requestRender([sn EXCEPT !.s.pageIndex = data,
                                           !.s.pageIndexRef = data,
                                           !.n.reported = data]))

\* A reconciliation that writes nothing.
syncPageIndexSkip(s) == s

\* getFlipbookPageIndex, then syncPageIndexFromFlipbook.
syncPageIndexFromFlipbook(s) ==
    IF ~(s.flipbook.mounted /\ s.flipbook.built) THEN s
    ELSE [s EXCEPT !.pageIndex = s.flipbook.page, !.pageIndexRef = s.flipbook.page]

\* A guard that drops no intent.
navGuardNever(since) == FALSE
\* A guard that also drops an intent NavGuardMs after the last.
navGuardInclusive(since) == since <= NavGuardMs
\* if (now - lastNavAtRef.current < 240) return
navGuardDrops(since) == since < NavGuardMs

\* A target that is not clamped.
navTargetRaw(curIdx, dir, np) == curIdx + dir

\* Math.max(0, Math.min(Math.max(0, numPages - 1), targetRaw))
navTarget(curIdx, dir, np) == Max(0, Min(Max(0, np - 1), curIdx + dir))

\* navTo(dir), dir = 1 for 'next' and -1 for 'prev'.  emits: the widget
\* reports the programmatic turn by onFlip (it does not in every environment).
navTo(sn, dir, emits) ==
    IF ~(sn.s.flipbook.mounted /\ sn.s.flipbook.built)
    THEN [sn EXCEPT !.n.last = "nowidget"]
    ELSE IF navGuardDrops(sn.n.since) THEN [sn EXCEPT !.n.last = "dropped"]
    ELSE LET curIdx == sn.s.flipbook.page
             target == navTarget(curIdx, dir, sn.s.numPages)
             a == [sn EXCEPT !.n.since = 0]
         IN  IF target = curIdx THEN [a EXCEPT !.n.last = "noop"]
             ELSE LET b == [a EXCEPT !.s.flipbook.page = target,
                                     !.n.last = "turned", !.n.turns = @ + 1]
                      c == IF emits THEN onFlipMobile(b, target) ELSE b
                  IN  requestRender(syncAfterFlip(c))

\* A press on a page button: flipNext or flipPrev.
NavIntent(dir, emits) ==
    /\ nav.intents < MaxIntents
    /\ LET r == navTo([s |-> Cur, n |-> nav], dir, emits)
           n2 == [r.n EXCEPT !.intents = @ + 1, !.dir = dir, !.sinceIntent = 0,
                             !.prev = nav.last, !.prevDir = nav.dir,
                             !.gap = nav.sinceIntent,
                             !.from = flipbook.page, !.prevFrom = nav.from,
                             !.calm = /\ nav.calm /\ activeRun # 0 /\ timers = {}
                                      /\ status.state = "ready"
                                      /\ \A i \in Slots : passes[i].pc = "free"]
       IN  /\ n2.frames <= MaxSync /\ Len(n2.settle) <= MaxSync
           /\ ApplyState(Commit(Cur, r.s))
           /\ nav' = n2
           /\ UNCHANGED aside

\* A swipe turns the page in the widget, which reports it by onFlip.
UserFlip(dir) ==
    /\ flipbook.mounted /\ flipbook.built
    /\ nav.swipes < MaxSwipes
    /\ LET data == flipbook.page + dir
           r == onFlipMobile([s |-> [Cur EXCEPT !.flipbook.page = data], n |-> nav], data)
       IN  /\ data >= 0 /\ data <= numPages - 1
           /\ r.n.frames <= MaxSync /\ Len(r.n.settle) <= MaxSync
           /\ ApplyState(Commit(Cur, r.s))
           /\ nav' = [r.n EXCEPT !.swipes = @ + 1]
           /\ UNCHANGED aside

\* The frame callback of syncAfterFlip.
SyncFrame ==
    /\ nav.frames > 0
    /\ ApplyState(Commit(Cur, syncPageIndexFromFlipbook(Cur)))
    /\ nav' = [nav EXCEPT !.frames = @ - 1,
                          !.reported = IF flipbook.mounted /\ flipbook.built
                                       THEN flipbook.page ELSE @]
    /\ UNCHANGED aside

\* The timer callback of syncAfterFlip, SettleMs after it was armed.
SyncSettle ==
    /\ nav.settle # <<>> /\ Head(nav.settle) = 0
    /\ ApplyState(Commit(Cur, syncPageIndexFromFlipbook(Cur)))
    /\ nav' = [nav EXCEPT !.settle = Tail(@),
                          !.reported = IF flipbook.mounted /\ flipbook.built
                                       THEN flipbook.page ELSE @]
    /\ UNCHANGED aside

\* The debounce timer fires when it is due.
NavTimerFire(t) ==
    /\ t \in timers /\ t.left = 0
    /\ FreeSlots # {}
    /\ ApplyState(StartPass(Cur, t))
    /\ nav' = [nav EXCEPT !.passesSince = Min(2, @ + 1),
                          !.centre = passWindow(Cur, t).currentPageNo,
                          !.passAt = nav.sinceSchedule,
                          !.lastBurst = nav.burst,
                          !.burst = 0]
    /\ UNCHANGED aside

\* The ms until the next timer is due, at most TickMs.
TickStep ==
    LET lefts == {t.left : t \in timers} \cup {nav.settle[k] : k \in 1..Len(nav.settle)}
    IN  CHOOSE d \in lefts \cup {TickMs} : \A e \in lefts \cup {TickMs} : d <= e

\* Time passes, up to the next deadline: a due timer runs first, and so does
\* a frame callback (a frame is shorter than TickMs in a visible tab).
Tick ==
    /\ TickStep > 0
    /\ nav.frames = 0
    /\ ApplyState([Cur EXCEPT !.timers = {[t EXCEPT !.left = @ - TickStep] : t \in @}])
    /\ nav' = [nav EXCEPT
                !.since = Min(NavGuardMs, @ + TickStep),
                !.sinceIntent = Min(MaxGapMs, @ + TickStep),
                !.sinceSchedule = Min(DebounceMs, @ + TickStep),
                !.settle = [k \in 1..Len(@) |-> @[k] - TickStep]]
    /\ UNCHANGED aside

\* A phone in portrait.
ContainerNav == <<FrInt(390), FrInt(844)>>

\* The touch component after its document of MaxPages pages is loaded and the
\* window around the first page is rendered: run 1 of the render effect is
\* live, its first pass has ended.
InitNav ==
    LET size == targetPageSizeMobile(ContainerNav[1], ContainerNav[2], Fr(3, 2), 100)
        key == currentSizeKey(size, 100)
        cl == [run |-> 1, doc |-> 1, np |-> MaxPages, key |-> key, narrow |-> TRUE]
    IN  /\ containerWidth = ContainerNav[1] /\ containerHeight = ContainerNav[2]
        /\ doc = 1 /\ numPages = MaxPages /\ pageIndex = 0
        /\ pageSize = size /\ pageRatio = Fr(3, 2) /\ viewZoom = 100
        /\ status = St("ready")
        /\ flipbook = [mounted |-> TRUE, key |-> <<sizeKey(size), 100>>,
                       built |-> TRUE, page |-> 0]
        /\ canvasRefs = [p \in Pages |-> Done(1, p, key)]
        /\ renderedPages = Pages /\ inflightPages = {}
        /\ renderLoopId = 1 /\ lastSizeKey = key
        /\ scheduleTimerRef = 1 /\ scheduleRenderRef = cl /\ pageIndexRef = 0
        /\ activeRun = 1 /\ timers = {}
        /\ loads = {} /\ liveLoad = 1 /\ loadSeq = 1
        /\ passes = [i \in Slots |-> FreePass]
        /\ okPages = Pages
        /\ staleLeft = FALSE
        /\ statusLog = <<>>
        /\ window = NoWindow /\ Idle
        /\ nav = [NoNav EXCEPT !.mobile = TRUE]

NextNav ==
    \/ \E dir \in {-1, 1}, emits \in BOOLEAN : NavIntent(dir, emits)
    \/ \E dir \in {-1, 1} : UserFlip(dir)
    \/ SyncFrame
    \/ SyncSettle
    \/ \E t \in timers : NavTimerFire(t)
    \/ Tick

SpecNav == InitNav /\ [][NextNav]_vars

\* ------------------------------------------------------------ the tour model

\* The touch component mounted in the phone's container, its load() under
\* way: setStatus({ state: 'loading' }) is the first entry of the log.
InitTour ==
    /\ containerWidth = ContainerNav[1] /\ containerHeight = ContainerNav[2]
    /\ doc = 0 /\ numPages = 0 /\ pageIndex = 0
    /\ pageSize = <<>> /\ pageRatio = <<>> /\ viewZoom = 100
    /\ status = St("loading")
    /\ flipbook = NoFlipbook /\ canvasRefs = NoCanvases
    /\ renderedPages = {} /\ inflightPages = {}
    /\ renderLoopId = 0 /\ lastSizeKey = <<>>
    /\ scheduleTimerRef = 0 /\ scheduleRenderRef = NoClosure /\ pageIndexRef = 0
    /\ activeRun = 0 /\ timers = {}
    /\ loads = {[id |-> 1, pc |-> "open"]} /\ liveLoad = 1 /\ loadSeq = 1
    /\ passes = [i \in Slots |-> FreePass]
    /\ okPages = {}
    /\ staleLeft = FALSE
    /\ statusLog = <<"loading">>
    /\ window = NoWindow /\ Idle
    /\ nav = [NoNav EXCEPT !.mobile = TRUE]

\* A document of MaxPages pages is opened and read from its first page on:
\* the load, the widget and every raster succeed; the page buttons call
\* flipNext; timers fire when they are due.
NextTour ==
    \/ \E l \in loads : LoadOpened(l, MaxPages)
    \/ \E l \in loads : LoadFirstPage(l, Fr(3, 2))
    \/ WidgetBuild
    \/ \E emits \in BOOLEAN : NavIntent(1, emits)
    \/ SyncFrame
    \/ SyncSettle
    \/ \E t \in timers : NavTimerFire(t)
    \/ Tick
    \/ \E i \in Slots : CanvasFrame(i)
    \/ \E i \in Slots : PageResolved(i, TRUE)
    \/ \E i \in Slots : RasterDone(i)

SpecTour == InitTour /\ [][NextTour]_vars

\* ------------------------------------------------------------ the raster factor model

\* The device pixel ratio window.devicePixelRatio in hundredths (0: the
\* browser reports none, or 0) and the zoom in hundredths.
\*   const baseDpr = Math.max(1, window.devicePixelRatio || 1)
\*   const dpr = Math.min(3, baseDpr * Math.min(1.6, viewZoom))
dprUncapped(d, z) ==
    LET baseDpr == FrMax(FrInt(1), IF d = 0 THEN FrInt(1) ELSE Fr(d, 100))
    IN  FrMul(baseDpr, FrMin(Fr(DprZoomCap, 100), Fr(z, 100)))

dpr(d, z) ==
    LET baseDpr == FrMax(FrInt(1), IF d = 0 THEN FrInt(1) ELSE Fr(d, 100))
    IN  FrMin(FrInt(DprCap), FrMul(baseDpr, FrMin(Fr(DprZoomCap, 100), Fr(z, 100))))

RasterInputs ==
    {[d |-> 50 * h, z |-> zz, dpr |-> <<>>] : h \in 0..MaxDprHalves, zz \in ZoomMin..ZoomMax}

InitDpr ==
    /\ InitState /\ nav = NoNav
    /\ window = [np |-> 0, idx |-> 0, narrow |-> FALSE, out |-> <<>>]
    /\ autoFlip = NoAutoFlip /\ touch = NoTouch
    /\ raster \in RasterInputs

\* The head of renderOne at the device pixel ratio raster.d and the zoom raster.z.
TakeDpr ==
    /\ raster.dpr = <<>>
    /\ raster' = [raster EXCEPT !.dpr = dpr(raster.d, raster.z)]
    /\ ApplyState(Cur) /\ UNCHANGED <<nav, window, autoFlip, touch>>

NextDpr == TakeDpr

SpecDpr == InitDpr /\ [][NextDpr]_vars

\* ------------------------------------------------------------ the long-press model

\* window.clearInterval(id)
clearInterval(a, id) == [a EXCEPT !.intervals = {t \in @ : t.id # id}]

\* startAutoFlip without its clearInterval.
startAutoFlipKeep(a, dir, can) ==
    IF ~can THEN a
    ELSE [a EXCEPT !.intervals = @ \cup {[id |-> a.seq + 1, dir |-> dir]},
                   !.seq = a.seq + 1, !.ref = a.seq + 1]

\* startAutoFlip(dir), `can` being canUseFlipbook as of the last render.
startAutoFlip(a, dir, can) ==
    IF ~can THEN a
    ELSE LET b == IF a.ref # 0 THEN clearInterval(a, a.ref) ELSE a
         IN  [b EXCEPT !.intervals = @ \cup {[id |-> a.seq + 1, dir |-> dir]},
                       !.seq = a.seq + 1, !.ref = a.seq + 1]

stopAutoFlip(a) ==
    IF a.ref = 0 THEN a
    ELSE [clearInterval(a, a.ref) EXCEPT !.ref = 0]

\* onPointerDown of the previous-page or the next-page button, by a pointer
\* that is not down on either.
AutoPress(p, dir) ==
    /\ autoFlip.down[p] = "none"
    /\ autoFlip.seq < MaxCalls
    /\ autoFlip' = [startAutoFlip(autoFlip, dir, canUseFlipbook(Cur)) EXCEPT
                        !.down[p] = dir,
                        !.held = canUseFlipbook(Cur) \/ @,
                        !.late = FALSE]
    /\ ApplyState(Cur) /\ UNCHANGED <<nav, window, raster, touch>>

\* onPointerUp and onPointerCancel of the button the pointer is down on, and
\* onPointerLeave of a button, which needs no press.
AutoRelease(p, kind) ==
    /\ kind = "leave" \/ autoFlip.down[p] # "none"
    /\ autoFlip' = [stopAutoFlip(autoFlip) EXCEPT
                        !.down[p] = "none", !.held = FALSE, !.late = FALSE]
    /\ ApplyState(Cur) /\ UNCHANGED <<nav, window, raster, touch>>

\* The callback of an interval the browser holds: it asks the widget, when
\* there is one, for flipNext() or flipPrev().
AutoTick(t) ==
    /\ t \in autoFlip.intervals
    /\ autoFlip.calls < MaxCalls
    /\ autoFlip' = [autoFlip EXCEPT !.calls = @ + 1, !.late = ~autoFlip.held]
    /\ ApplyState(Cur) /\ UNCHANGED <<nav, window, raster, touch>>

ContainerAuto == <<FrInt(760), FrInt(584)>>

\* The page buttons under presses of up to MaxPointers pointers, while the
\* document loads and is loaded again.
NextAuto ==
    \/ Resize(ContainerAuto)
    \/ Reload
    \/ \E l \in loads, n \in PageCounts : LoadOpened(l, n)
    \/ \E l \in loads, r \in Ratios : LoadFirstPage(l, r)
    \/ \E p \in Pointers, dir \in {"prev", "next"} : AutoPress(p, dir)
    \/ \E p \in Pointers, kind \in {"up", "cancel", "leave"} : AutoRelease(p, kind)
    \/ \E t \in autoFlip.intervals : AutoTick(t)

SpecAuto == Init /\ [][NextAuto]_vars

\* ------------------------------------------------------------ the touch model

\* The component of src/unnamed/part_001: EbookFlipbook with touch handlers
\* on its scroll surface, which is rendered when canUseFlipbook holds.

\* window.innerWidth, and the places a finger may be: two of them less than
\* TapSlop apart on the left half, one on the right half; two heights.
InnerWidth == 400
TouchXs == {100, 104, 300}
TouchYs == {50, 80}
TouchPlaces == TouchXs \X TouchYs

\* An effect that finds the scroll surface whenever it runs.
surfaceAlways(s) == TRUE

\* scrollRef.current is set when the effect runs: the surface is rendered
\* in the commit before, `canUseFlipbook ? <div ref={scrollRef} ..> : null`.
surfaceMounted(s) == canUseFlipbook(s)

\* The effect with the touch handlers, run once after the first commit
\* (its dependencies are []): `if (!scrollEl) return`, else addEventListener.
touchEffect(s, th) == [th EXCEPT !.listening = surfaceMounted(s)]

\* count: e.touches.length; place: where e.touches[0] is when it is the
\* only finger.
handleTouchStart(th, count, place) ==
    LET a == [th EXCEPT !.isMultiTouch = count >= 2]
    IN  IF a.isMultiTouch THEN a
        ELSE [a EXCEPT !.touchStartX = place[1], !.touchStartY = place[2]]

\* place: where changedTouches[0] was lifted.
handleTouchEnd(th, place) ==
    IF th.isMultiTouch THEN [th EXCEPT !.isMultiTouch = FALSE]
    ELSE LET deltaX == Abs(place[1] - th.touchStartX)
             deltaY == Abs(place[2] - th.touchStartY)
         IN  IF deltaX < TapSlop /\ deltaY < TapSlop THEN th
             ELSE IF 2 * th.touchStartX < InnerWidth
                  THEN [th EXCEPT !.flip = "prev"]
                  ELSE [th EXCEPT !.flip = "next"]

handleTouchCancel(th) == [th EXCEPT !.isMultiTouch = FALSE]

InitTouch ==
    /\ InitState /\ nav = NoNav
    /\ window = [np |-> 0, idx |-> 0, narrow |-> FALSE, out |-> <<>>]
    /\ raster = NoRaster /\ autoFlip = NoAutoFlip
    /\ touch = touchEffect(Cur, NoTouch)

\* A finger comes down: touchstart, with every finger on the screen in
\* e.touches.  The first finger of a gesture begins the history.
TouchStart(f, place) ==
    /\ f \notin touch.touches
    /\ LET count == Cardinality(touch.touches) + 1
           a == [touch EXCEPT !.touches = @ \cup {f}, !.at[f] = place,
                              !.multi = (touch.touches # {} /\ @) \/ count >= 2,
                              !.ends = IF touch.touches = {} THEN 0 ELSE @,
                              !.flip = "none"]
       IN  touch' = IF touch.listening
                    THEN handleTouchStart(a, count, place)
                    ELSE a
    /\ ApplyState(Cur) /\ UNCHANGED <<nav, window, raster, autoFlip>>

\* A finger moves: handleTouchMove writes nothing.
TouchMove(f, place) ==
    /\ f \in touch.touches /\ touch.at[f] # place
    /\ touch' = [touch EXCEPT !.at[f] = place, !.flip = "none"]
    /\ ApplyState(Cur) /\ UNCHANGED <<nav, window, raster, autoFlip>>

\* The fingers of F are lifted in one touchend, c being changedTouches[0].
TouchEnd(F, c) ==
    /\ F # {} /\ F \subseteq touch.touches /\ c \in F
    /\ touch.ends < MaxFingers
    /\ LET a == [touch EXCEPT !.touches = @ \ F,
                              !.at = [f \in Fingers |-> IF f \in F THEN <<0, 0>> ELSE @[f]],
                              !.ends = @ + 1, !.flip = "none"]
       IN  touch' = IF touch.listening THEN handleTouchEnd(a, touch.at[c]) ELSE a
    /\ ApplyState(Cur) /\ UNCHANGED <<nav, window, raster, autoFlip>>

\* The browser takes the fingers of F away: touchcancel.
TouchCancel(F) ==
    /\ F # {} /\ F \subseteq touch.touches
    /\ LET a == [touch EXCEPT !.touches = @ \ F,
                              !.at = [f \in Fingers |-> IF f \in F THEN <<0, 0>> ELSE @[f]],
                              !.flip = "none"]
       IN  touch' = IF touch.listening THEN handleTouchCancel(a) ELSE a
    /\ ApplyState(Cur) /\ UNCHANGED <<nav, window, raster, autoFlip>>

\* Fingers on the screen while the document loads and after.
NextTouch ==
    \/ Resize(ContainerAuto)
    \/ \E l \in loads, n \in PageCounts : LoadOpened(l, n)
    \/ \E l \in loads, r \in Ratios : LoadFirstPage(l, r)
    \/ \E f \in Fingers, place \in TouchPlaces : TouchStart(f, place)
    \/ \E f \in Fingers, place \in TouchPlaces : TouchMove(f, place)
    \/ \E F \in SUBSET Fingers, c \in Fingers : TouchEnd(F, c)
    \/ \E F \in SUBSET Fingers : TouchCancel(F)

SpecTouch == InitTouch /\ [][NextTouch]_vars

\* ------------------------------------------------------------ claims

TargetNull ==
    targetPageSize(containerWidth, containerHeight, pageRatio, viewZoom) = <<>>

\* C1: between handlers no page is both in renderedPages and in inflightPages.
C1_NeverBoth == renderedPages \cap inflightPages = {}

C1_Witness == renderedPages # {} /\ inflightPages # {}

\* C2: a page in renderedPages was rasterized to the end by a step whose
\* raster began under the present generation.
C2_RenderedIsFresh == renderedPages \subseteq okPages

\* C3: the canvas attached for a page in renderedPages shows the finished
\* raster of that page of the present document at the stored generation key.
C3_RenderedShown ==
    \A p \in renderedPages :
        canvasRefs[p] # <<>> => canvasRefs[p] = Done(doc, p, lastSizeKey)

\* C10: while targetPageSize is null no timer is armed, no pass starts and no
\* raster starts.
C10_NullMeansNoRender ==
    [][(TargetNull /\ TargetNull') =>
        /\ timers' \subseteq timers
        /\ \A i \in Slots :
            /\ passes[i].pc = "free" => passes'[i].pc = "free"
            /\ passes'[i].pc = "raster" => passes[i].pc = "raster"]_vars

\* C4: the wanted pages are max(1, n - 4) .. min(np, n + 10) in the spread
\* layout and max(1, n - 2) .. min(np, n + 4) in the single-page layout, n
\* being the current page number, in ascending order.
C4_WindowIsRange ==
    window.out # <<>> =>
        LET n == window.idx + 1
            lo == Max(1, n - (IF window.narrow THEN 2 ELSE 4))
            hi == Min(window.np, n + (IF window.narrow THEN 4 ELSE 10))
        IN  /\ {window.out[k] : k \in 1..Len(window.out)} = lo..hi
            /\ Len(window.out) = hi - lo + 1
            /\ \A k \in 1..(Len(window.out) - 1) : window.out[k + 1] = window.out[k] + 1

\* 10 pages at index 5 in the spread layout: pages 2..10.
C4_Witness ==
    /\ window.np = 10 /\ window.idx = 5 /\ ~window.narrow
    /\ window.out = <<2, 3, 4, 5, 6, 7, 8, 9, 10>>

\* C8: the zoom stays within 0.7 and 2.5, on a tenth.
C8_ZoomInBounds ==
    /\ ZoomMin <= viewZoom /\ viewZoom <= ZoomMax
    /\ viewZoom % ZoomStep = 0

\* The zoom at its upper bound with the page box that goes with it.
C8_Witness == viewZoom = ZoomMax /\ pageSize # <<>> /\ renderLoopId > 1

\* The box the claim gives for an available box aW x aH.
ClaimedBox(aW, aH, narrow, r, z) ==
    LET byWidth == IF narrow THEN aW ELSE FrDiv(aW, FrInt(2))
        w == FrMul(FrMax(FrInt(0), FrMin(byWidth, FrDiv(aH, r))), Fr(z, 100))
    IN  <<w, FrMul(w, r)>>

\* What C9 says of one component: its box is the claimed one and, at zoom
\* 1, one page or two side by side fit in the available box.
BoxAsClaimed(box, aW, aH, narrow, r, z) ==
    (r # <<>> /\ FrLT(FrInt(0), r) /\ FrLT(FrInt(0), aW) /\ FrLT(FrInt(0), aH)) =>
        /\ box = ClaimedBox(aW, aH, narrow, r, z)
        /\ z = 100 =>
            /\ FrLE(FrMul(FrInt(IF narrow THEN 1 ELSE 2), box[1]), aW)
            /\ FrLE(box[2], aH)

\* C9: where both available dimensions are positive the target page box is
\* w = max(0, min(narrow ? aW : aW / 2, aH / r)) * z, h = w * r, in both
\* components, and at zoom 1 it fits in the available box.
C9_BoxFormula ==
    /\ BoxAsClaimed(targetPageSize(containerWidth, containerHeight, pageRatio, viewZoom),
                    Fr(containerWidth[1] - 2 * padX * containerWidth[2], containerWidth[2]),
                    Fr(containerHeight[1] - (controlsH + 2 * padY) * containerHeight[2],
                       containerHeight[2]),
                    isNarrowOf(containerWidth), pageRatio, viewZoom)
    /\ BoxAsClaimed(targetPageSizeMobile(containerWidth, containerHeight, pageRatio, viewZoom),
                    Fr(containerWidth[1] - 2 * padXMobile * containerWidth[2], containerWidth[2]),
                    Fr(containerHeight[1] - (controlsHMobile + 2 * padYMobile) * containerHeight[2],
                       containerHeight[2]),
                    TRUE, pageRatio, viewZoom)

\* An A4 page in a single-page layout with aW = 400, aH = 1000, at zoom 1: the
\* box is 400 wide.
C9_Witness ==
    /\ containerWidth = FrInt(448) /\ containerHeight = FrInt(1116)
    /\ pageRatio = Fr(99, 70) /\ viewZoom = 100
    /\ pageSize # <<>> /\ pageSize[1] = FrInt(400)

\* A step that is a call of navTo.
IntentStep == nav'.intents = nav.intents + 1
WidgetReady == flipbook.mounted /\ flipbook.built

\* C5: the calls of schedule of one effect run that come less than DebounceMs
\* apart lead to one pass, begun DebounceMs after the last of them: one timer
\* at most is pending, it is due DebounceMs after the last call, no pass begins
\* while it is pending and one has begun once it is gone.
C5_OnePassPerBurst ==
    /\ Cardinality(timers) <= 1
    /\ \A t \in timers : t.left = DebounceMs - nav.sinceSchedule
    /\ timers # {} => nav.passesSince = 0
    /\ timers = {} => nav.passesSince = 1
    /\ nav.passAt = DebounceMs

\* A pass has begun after a burst of two calls or more.
C5_Witness ==
    /\ nav.lastBurst >= 2 /\ nav.passesSince = 1 /\ timers = {}
    /\ nav.sinceSchedule = DebounceMs

\* C6: a call of navTo less than NavGuardMs after the last call that passed
\* the guard turns no page and arms no reconciliation and no render request.
C6_EarlyIntentDropped ==
    [][(IntentStep /\ WidgetReady /\ nav.since < NavGuardMs) =>
        /\ flipbook' = flipbook
        /\ pageIndex' = pageIndex /\ pageIndexRef' = pageIndexRef
        /\ timers' = timers /\ scheduleTimerRef' = scheduleTimerRef
        /\ nav'.frames = nav.frames /\ nav'.settle = nav.settle
        /\ nav'.since = nav.since /\ nav'.sinceSchedule = nav.sinceSchedule
        /\ nav'.last = "dropped"]_vars

\* Two calls of flipNext 50 ms apart: one page turned, the second call dropped.
C6_Witness ==
    /\ nav.intents = 2 /\ nav.turns = 1 /\ nav.swipes = 0
    /\ nav.dir = 1 /\ nav.last = "dropped"
    /\ nav.since = 50 /\ nav.sinceIntent = 0
    /\ flipbook.page = 1

\* The last two calls of navTo were flipNext, the second MaxGapMs after the
\* first, with the widget there, two pages ahead of the first, no swipe.
TwoNextApart ==
    /\ nav.intents >= 2 /\ nav.dir = 1 /\ nav.prevDir = 1
    /\ nav.gap >= MaxGapMs /\ nav.swipes = 0
    /\ nav.prevFrom + 2 <= numPages - 1
    /\ nav.last # "nowidget" /\ nav.prev # "nowidget"

TourOver ==
    /\ nav.intents = 2 /\ nav.turns = 2 /\ nav.prevFrom = 0
    /\ loads = {} /\ timers = {} /\ nav.frames = 0 /\ nav.settle = <<>>
    /\ \A i \in Slots : passes[i].pc = "free"

\* C11 as claimed: after the tour the log of setStatus is loading, ready, and
\* rendering, ready for each of the two calls; pageIndex is 2.
C11_TourLogAsClaimed ==
    TourOver =>
        /\ statusLog = <<"loading", "ready", "rendering", "ready", "rendering", "ready">>
        /\ pageIndex = 2

\* C11: after the tour, the calls of flipNext having come with the status
\* ready, no timer pending and no pass running, the log of setStatus is loading, ready, then
\* rendering, ready for the pass the render effect schedules when the page
\* box is known, then rendering, ready for each of the two calls; pageIndex
\* is 2.
C11_TourLog ==
    (TourOver /\ nav.calm) =>
        /\ statusLog = <<"loading", "ready", "rendering", "ready",
                         "rendering", "ready", "rendering", "ready">>
        /\ pageIndex = 2 /\ flipbook.page = 2 /\ status = St("ready")

C11_Witness ==
    /\ TourOver /\ nav.calm /\ pageIndex = 2 /\ Len(statusLog) = 8
    /\ renderedPages = Pages

\* No renderOne step is waiting: every renderWindow call has returned.
NoStepActive == \A i \in Slots : passes[i].pc = "free"

\* C12: a page a step put into inflightPages is taken out when the step
\* ends, however it ends; so with no step active inflightPages is empty.
C12_IdleMeansNoInflight == NoStepActive => inflightPages = {}

\* C13: when a step of a pass of the live effect run ends and the pass
\* returns in the same task, every page the pass had still to visit was
\* visited: it is in renderedPages or in inflightPages (the two reasons for
\* which a step returns at once).
C13_PassGoesOn ==
    [][\A i \in Slots :
        (/\ passes[i].pc \in {"canvas", "page", "raster"}
         /\ passes[i].run = activeRun /\ passes[i].run = activeRun'
         /\ passes'[i].pc = "free") =>
            \A k \in 1..Len(passes[i].rest) :
                passes[i].rest[k] \in renderedPages' \cup inflightPages']_vars

\* C14: a raster begins, a step goes on from the surface wait to the page
\* fetch and a pass begins only in the live effect run, and every pending
\* debounce timer is the live run's.
C14_StaleRunsDoNothing ==
    [][/\ \A i \in Slots :
            /\ (passes'[i].pc = "raster" /\ passes[i].pc # "raster") =>
                    (passes'[i].run = activeRun /\ passes'[i].run = activeRun')
            /\ (passes'[i].pc = "page" /\ passes[i].pc = "canvas") =>
                    passes'[i].run = activeRun'
            /\ (passes'[i].pc # "free" /\ passes[i].pc = "free") =>
                    passes'[i].run = activeRun'
       /\ \A t \in timers' : t.cl.run = activeRun' /\ activeRun' # 0]_vars

\* A step of a run torn down has resumed and returned, and a step of the
\* live run is rasterizing.
C14_Witness ==
    /\ staleLeft /\ activeRun # 0
    /\ \E i \in Slots : passes[i].pc = "raster" /\ passes[i].run = activeRun

\* C15: the status becomes error only from loading, in a step in which a load
\* ended.
C15_ErrorOnlyFromLoading ==
    [][(status'.state = "error" /\ status.state # "error") =>
        (status.state = "loading" /\ loads' # loads)]_vars

\* C16: from error the status goes nowhere but to loading, by a reload.
C16_ErrorIsTerminal ==
    [][status.state = "error" =>
        \/ status'.state = "error"
        \/ status'.state = "loading" /\ loadSeq' = loadSeq + 1]_vars

\* The pages a pass still has to visit come after the page of its step, in
\* ascending order.
RestAscends(ps) ==
    /\ \A k \in 1..Len(ps.rest) : ps.page < ps.rest[k]
    /\ \A k \in 1..(Len(ps.rest) - 1) : ps.rest[k] < ps.rest[k + 1]

\* C17: a pass has one step at a time and takes its pages in ascending
\* order: when it moves on from a page, the step for that page has ended (the
\* page is no longer InFlight) and the next page is a later one; a raster it
\* completes is of its current step's page, which is past every page it
\* entered before.
C17_OneStepAscending ==
    /\ [](\A i \in Slots : passes[i].pc # "free" => RestAscends(passes[i]))
    /\ [][\A i \in Slots :
            (passes[i].pc # "free" /\ passes'[i].pc # "free"
                /\ passes'[i].page # passes[i].page)
            => /\ passes'[i].run = passes[i].run
               /\ passes'[i].page > passes[i].page
               /\ passes[i].page \notin inflightPages'
               /\ passes'[i].rest # passes[i].rest]_vars

\* A pass that has rasterized page 1 is rasterizing page 2, its last.
C17_Witness ==
    \E i \in Slots : /\ passes[i].pc = "raster"
                     /\ passes[i].page = 2
                     /\ passes[i].rest = <<>>
                     /\ passes[i].run = activeRun
                     /\ 1 \in renderedPages
                     /\ inflightPages = {2}

\* The state after the first commit of a click on the zoom-in button: the
\* render effect has run with the new zoom, pageSize is still the old one.
AfterZoomCommit == RenderCommit(Cur, [Cur EXCEPT !.viewZoom = zoomIn(@)], FALSE)

\* C18: an effect run that finds a generation key other than the stored one
\* leaves, with its pass scheduled and not yet started, both sets empty, its
\* key stored and every attached canvas blank (seen after every step that
\* changes the stored key, and after the commit of a zoom click, which runs
\* the effect while the widget keeps its canvases); and a pass of the live
\* run runs under the stored key.
C18_ChangeoverBeforePass ==
    /\ [][lastSizeKey' # lastSizeKey =>
            /\ renderedPages' = {}
            /\ inflightPages' = {}
            /\ activeRun' = renderLoopId' /\ renderLoopId' > renderLoopId
            /\ lastSizeKey' = scheduleRenderRef'.key
            /\ \A p \in Pages : canvasRefs'[p] \in {<<>>, Blank}
            /\ \A i \in Slots : passes'[i].run # renderLoopId'
            /\ \E t \in timers' : t.cl.run = renderLoopId' /\ t.cl.key = lastSizeKey']_vars
    /\ [](LET a == AfterZoomCommit
          IN  a.lastSizeKey # lastSizeKey =>
                /\ a.renderedPages = {}
                /\ a.inflightPages = {}
                /\ a.activeRun = a.renderLoopId /\ a.renderLoopId > renderLoopId
                /\ a.lastSizeKey = a.scheduleRenderRef.key
                /\ \A p \in Pages : a.canvasRefs[p] \in {<<>>, Blank}
                /\ \A i \in Slots : a.passes[i].run # a.renderLoopId
                /\ \E t \in a.timers : t.cl.run = a.renderLoopId /\ t.cl.key = a.lastSizeKey)
    /\ [](\A i \in Slots :
            (passes[i].pc # "free" /\ passes[i].run = activeRun)
                => passes[i].key = lastSizeKey)

\* A generation with a rendered page, a page InFlight and both canvases
\* attached, one of them drawn, that a zoom click would end with the canvases
\* blanked in place.
C18_Witness ==
    /\ renderedPages # {} /\ inflightPages # {}
    /\ \E p \in Pages : canvasRefs[p] # <<>> /\ canvasRefs[p] # Blank
    /\ LET a == AfterZoomCommit
       IN  /\ a.lastSizeKey # lastSizeKey
           /\ \A p \in 1..numPages : a.canvasRefs[p] = Blank

\* The indices of the loaded document's pages.
PageIndices == 0..(numPages - 1)

\* C19: with a document of at least one page loaded, pageIndex (and the
\* ref that mirrors it, and the widget's page) is one of 0..numPages-1; a
\* call of navTo that turns asks for the neighbouring index, which is in
\* that range; flipNext on the last page and flipPrev on the first turn
\* nothing.
C19_PageIndexInRange ==
    /\ []((doc # 0 /\ numPages >= 1) =>
            /\ pageIndex \in PageIndices
            /\ pageIndexRef \in PageIndices
            /\ flipbook.mounted => flipbook.page \in PageIndices)
    /\ [][IntentStep =>
            /\ nav'.last = "turned" =>
                    /\ flipbook'.page = flipbook.page + nav'.dir
                    /\ flipbook'.page \in PageIndices
            /\ (\/ nav'.dir = 1 /\ flipbook.page = numPages - 1
                \/ nav'.dir = -1 /\ flipbook.page = 0) =>
                    /\ nav'.last # "turned"
                    /\ nav'.turns = nav.turns
                    /\ flipbook'.page = flipbook.page
                    /\ pageIndex' = pageIndex
                    /\ timers' = timers]_vars

\* flipNext on the last page, reached by turning, and nothing turned.
C19_Witness ==
    /\ nav.last = "noop" /\ nav.dir = 1 /\ nav.prev = "turned"
    /\ nav.from = numPages - 1
    /\ flipbook.page = numPages - 1 /\ pageIndex = numPages - 1
    /\ numPages = MaxPages

\* C20: while the generation lasts, a page in renderedPages stays there,
\* no step starts a raster of it and its canvas is not drawn on again.
C20_RenderedOnce ==
    [][\A P \in renderedPages :
        lastSizeKey' = lastSizeKey =>
            /\ P \in renderedPages'
            /\ \A i \in Slots :
                    ~(/\ passes'[i].pc = "raster" /\ passes'[i].page = P
                      /\ ~(passes[i].pc = "raster" /\ passes[i].page = P))
            /\ canvasRefs'[P] # canvasRefs[P] =>
                    canvasRefs'[P] \in {<<>>, Blank}]_vars

\* The step of slot i is rasterizing: its task is started and not settled.
Rasterizing(i) == passes[i].pc = "raster"

\* C21: no two rasters are active on the canvas canvasRefs holds for one
\* page.
C21_OneRasterPerCanvas ==
    \A i, j \in Slots :
        (i # j /\ Rasterizing(i) /\ Rasterizing(j)
            /\ passes[i].page = passes[j].page)
        => (passes[i].detached \/ passes[j].detached)

\* C22: no two rasters are active at once.
C22_OneRasterInTotal ==
    \A i, j \in Slots : (Rasterizing(i) /\ Rasterizing(j)) => i = j

\* A timer of the live run fires and its pass takes slot i.
PassStarts(i) ==
    /\ passes[i].pc = "free" /\ passes'[i].pc # "free"
    /\ Cardinality(timers') < Cardinality(timers)

\* C23: after a raster of page P failed, P is in neither set; and a pass
\* that starts while a page of its window is in neither set does not skip
\* it: the page is the one the pass takes up or it is still to come.
C23_FailedPageRetried ==
    /\ [][\A i \in Slots :
            (Rasterizing(i) /\ RasterFail(i)) =>
                /\ passes[i].page \notin renderedPages'
                /\ passes[i].page \notin inflightPages']_vars
    /\ [][\A i \in Slots :
            PassStarts(i) =>
                \A P \in 1..numPages :
                    (/\ P \notin renderedPages /\ P \notin inflightPages
                     /\ \E k \in 1..Len(renderWindowWant(numPages, pageIndexRef, isNarrow(Cur)).want) :
                            renderWindowWant(numPages, pageIndexRef, isNarrow(Cur)).want[k] = P)
                    => \/ passes'[i].page = P /\ P \in inflightPages'
                       \/ \E k \in 1..Len(passes'[i].rest) : passes'[i].rest[k] = P]_vars

\* The step of slot i, of the live run, gives up its wait for a canvas that
\* was not there at any of its frames: the frame that resolves is the last of
\* maxFrames.
WaitTimesOut(i) ==
    /\ passes[i].pc = "canvas"
    /\ passes[i].frames + 1 = maxFrames
    /\ passes[i].run = activeRun
    /\ canvasRefs[passes[i].page] = <<>>
    /\ passes'[i] # passes[i]

\* C24: a step waits for its canvas for at most maxFrames frames, every
\* frame but the last counting one up; the step that gives up has not
\* rasterized, its page is in neither set, and its pass goes on to the pages
\* it has left.
C24_WaitIsBounded ==
    /\ [](\A i \in Slots : passes[i].pc = "canvas" => passes[i].frames < maxFrames)
    /\ [][\A i \in Slots :
            (passes[i].pc = "canvas" /\ passes'[i] # passes[i]) =>
                \/ passes'[i].pc # "canvas"
                \/ passes'[i].page # passes[i].page
                \/ passes'[i].frames = passes[i].frames + 1]_vars
    /\ [][\A i \in Slots :
            WaitTimesOut(i) =>
                /\ passes[i].page \notin renderedPages'
                /\ passes[i].page \notin inflightPages'
                /\ ~(passes'[i].pc = "raster" /\ passes'[i].page = passes[i].page)
                /\ canvasRefs'[passes[i].page] = canvasRefs[passes[i].page]
                /\ (passes[i].run = activeRun /\ passes'[i].pc = "free") =>
                        \A k \in 1..Len(passes[i].rest) :
                            passes[i].rest[k] \in renderedPages' \cup inflightPages']_vars

\* C25: the cleanup of an effect run cancels every raster the run has
\* active: no raster of a run that is torn down is left running.
C25_TeardownCancelsAll ==
    [][\A i \in Slots :
        (Rasterizing(i) /\ passes[i].run = activeRun /\ activeRun' # activeRun)
            => ~(passes'[i].pc = "raster" /\ passes'[i].run = passes[i].run)]_vars

\* The render effect run once more in the current state: its cleanup, then
\* its body.
EffectRerun == EffectBody(EffectCleanup(Cur))

\* if (!doc) return; if (!pageSize) return; if (numPages <= 0) return
GuardsPass == doc # 0 /\ pageSize # <<>> /\ numPages > 0

\* C26: renderLoopId never goes down; a run of the effect that passes its
\* guards takes the next id and is then the live run, one that does not
\* leaves the id alone (a step holds at most two runs); a pass or a pending
\* timer carries an id that is at most renderLoopId, and the id itself
\* when its run is live.
C26_EpochMonotone ==
    /\ [][/\ renderLoopId' >= renderLoopId
          /\ renderLoopId' <= renderLoopId + 2
          /\ renderLoopId' # renderLoopId => activeRun' = renderLoopId']_vars
    /\ [](LET e == EffectRerun
          IN  IF GuardsPass
              THEN e.renderLoopId = renderLoopId + 1 /\ e.activeRun = e.renderLoopId
              ELSE e.renderLoopId = renderLoopId /\ e.activeRun = 0)
    /\ [](/\ activeRun \in {0, renderLoopId}
          /\ \A i \in Slots : passes[i].pc # "free" =>
                /\ passes[i].run >= 1 /\ passes[i].run <= renderLoopId
                /\ passes[i].run = activeRun => passes[i].run = renderLoopId
          /\ \A t \in timers : t.cl.run = renderLoopId)

\* The third run is live and rasterizing while a pass of an earlier run is
\* still suspended.
C26_Witness ==
    /\ renderLoopId = MaxRuns /\ activeRun = renderLoopId
    /\ \E i, j \in Slots : /\ passes[i].pc = "raster" /\ passes[i].run = renderLoopId
                            /\ passes[j].pc # "free" /\ passes[j].run < renderLoopId

\* C27: at most one debounce timer is pending, the one scheduleTimerRef
\* names, and it belongs to the live run; the end of a run leaves none of
\* its timers.
C27_OneTimerPending ==
    /\ [](/\ Cardinality(timers) <= 1
          /\ \A t \in timers : /\ t.id = scheduleTimerRef
                                /\ activeRun # 0 /\ t.cl.run = activeRun)
    /\ [][activeRun' # activeRun => timers' \cap timers = {}]_vars

\* A flip asked for a pass while the first timer of run 1 was pending: one
\* timer is pending and no pass has begun.
C27_Witness ==
    /\ Cardinality(timers) = 1
    /\ renderLoopId = 1 /\ activeRun = 1
    /\ pageIndex = 1
    /\ status.state = "ready" /\ renderedPages = {}
    /\ \A i \in Slots : passes[i].pc = "free"

\* C28: when a raster of a pass of the live run puts the pass's current
\* page or a neighbour of it into renderedPages and the pass has pages left,
\* the status is ready from then on, not rendering.
C28_ReadyBeforePassEnds ==
    [][\A i \in Slots :
        (/\ Rasterizing(i) /\ passes[i].run = activeRun
         /\ passes[i].page \notin renderedPages
         /\ passes[i].page \in renderedPages'
         /\ passes[i].page \in (passes[i].curNo - 1)..(passes[i].curNo + 1)
         /\ passes'[i].pc # "free" /\ passes'[i].run = passes[i].run
         /\ status.state = "rendering")
        => status'.state = "ready"]_vars

\* The step is one of the load, the firing of the live run's timer, or the
\* continuation of a pass of the run that is live before and after it.
LiveStatusWriter ==
    \/ loads' # loads
    \/ loadSeq' # loadSeq
    \/ activeRun' = activeRun /\ \E t \in timers : t \notin timers'
    \/ /\ activeRun' = activeRun
       /\ \E i \in Slots : /\ passes[i].pc # "free"
                            /\ passes[i].run = activeRun
                            /\ passes'[i] # passes[i]

\* C29: the status changes only in a step of the load or of a pass of the
\* live run: a pass whose run was torn down leaves it alone.
C29_StalePassKeepsStatus == [][status' # status => LiveStatusWriter]_vars

\* Nothing asynchronous is outstanding: no load, no timer, no pass, and the
\* widget has built its canvases.
Settled ==
    /\ loads = {}
    /\ timers = {}
    /\ \A i \in Slots : passes[i].pc = "free"
    /\ flipbook.mounted => flipbook.built

\* C30: the status does not rest at rendering: once everything that was
\* started has settled, with the run live and no page left InFlight, it is
\* not rendering.
C30_RenderingEndsReady ==
    (Settled /\ activeRun # 0 /\ inflightPages = {}) => status.state # "rendering"

\* C31: for every device pixel ratio d and every zoom z in [0.7, 2.5] the
\* factor renderOne computes is min(3, max(1, d) * min(1.6, z)), here in
\* ten-thousandths, and is at most 3.
C31_RasterFactor ==
    raster.dpr # <<>> =>
        /\ raster.dpr = Fr(Min(10000 * DprCap,
                               Max(100, raster.d) * Min(DprZoomCap, raster.z)), 10000)
        /\ FrLE(raster.dpr, FrInt(3))

\* The cap decides: a ratio of 4 at a zoom of 2.5 would give 6.4.
C31_Witness ==
    raster.d = 400 /\ raster.z = 250 /\ raster.dpr = FrInt(3)

\* C32: at most one repeat interval is active, the one autoFlipTimerRef
\* names; once a release, cancel or leave has been handled no interval is
\* left and the repeat calls flipNext/flipPrev no more until the next press.
C32_OneRepeat ==
    /\ Cardinality(autoFlip.intervals) <= 1
    /\ \A t \in autoFlip.intervals : t.id = autoFlip.ref
    /\ ~autoFlip.held => autoFlip.intervals = {}
    /\ ~autoFlip.late

\* A second pointer pressed the other button while the first was held, and
\* the repeat has called the widget since.
C32_Witness ==
    /\ autoFlip.down[1] = "next" /\ autoFlip.down[2] = "prev"
    /\ autoFlip.seq = 2 /\ autoFlip.calls = 2
    /\ autoFlip.intervals = {[id |-> 2, dir |-> "prev"]}

\* C33: a call of navTo that turns the page leaves one more frame callback
\* and one more SettleMs timer pending (two more of each when the widget
\* reports the turn by onFlip, whose handler schedules its own pair); a
\* callback sets pageIndex and pageIndexRef to the widget's index, a second
\* run of it changes nothing more, one that finds no widget changes nothing,
\* and when no callback is pending pageIndex = pageIndexRef = the widget's
\* index.
C33_Reconciles ==
    [][/\ nav'.turns = nav.turns + 1 =>
            /\ nav'.frames > nav.frames
            /\ Len(nav'.settle) > Len(nav.settle)
            /\ nav'.settle[Len(nav'.settle)] = SettleMs
       /\ (nav'.frames < nav.frames \/ Len(nav'.settle) < Len(nav.settle)) =>
            /\ pageIndex' = flipbook.page /\ pageIndexRef' = flipbook.page
            /\ flipbook'.page = flipbook.page
       /\ syncPageIndexFromFlipbook(syncPageIndexFromFlipbook(Cur))
            = syncPageIndexFromFlipbook(Cur)
       /\ LET gone == [Cur EXCEPT !.flipbook = NoFlipbook]
          IN  syncPageIndexFromFlipbook(gone) = gone
       /\ (nav'.frames = 0 /\ nav'.settle = <<>>) =>
            (pageIndex' = flipbook'.page /\ pageIndexRef' = flipbook'.page)]_vars

\* One turn by navTo and no swipe; both callbacks have run.
C33_Witness ==
    /\ nav.turns = 1 /\ nav.swipes = 0 /\ nav.last = "turned"
    /\ nav.frames = 0 /\ nav.settle = <<>>
    /\ flipbook.page = 1 /\ pageIndex = 1 /\ pageIndexRef = 1

\* C34: pageIndexRef holds the index the widget reported last, and a pass
\* that begins takes its window around that index as it is when the timer
\* fires, whatever it was when the timer was armed.
C34_WindowAtLastReport ==
    [][/\ pageIndexRef' = nav'.reported
       /\ (nav.burst > 0 /\ nav'.burst = 0) =>
            nav'.centre = Max(0, Min(numPages - 1, nav.reported)) + 1]_vars

\* Two requests were coalesced into one pass; the timer was armed at index 1,
\* the widget reported 2 to the frame callback, the pass is centred on page 3.
C34_Witness ==
    /\ nav.lastBurst = 2 /\ nav.burst = 0
    /\ nav.armedAt = 1 /\ nav.reported = 2 /\ nav.centre = 3

\* C35: a load() whose effect has been cleaned up by a newer load writes
\* nothing when it resumes, with a document, a first page or a failure: doc,
\* numPages, pageRatio and status stay as they are; the document in place is
\* none or the one of the load begun last.
C35_SupersededLoadIsMute ==
    [][/\ (\E l \in loads : l.id # liveLoad /\ \A m \in loads' : m.id # l.id) =>
            /\ doc' = doc /\ numPages' = numPages
            /\ pageRatio' = pageRatio /\ status' = status
       /\ doc' \in {0, liveLoad'}]_vars

\* The first load resumed after the reload; the second load's document is in
\* place and the status is ready.
C35_Witness ==
    /\ nav.lateLoad /\ loads = {} /\ liveLoad = 2
    /\ doc = 2 /\ numPages = RenderPages /\ pageRatio # <<>> /\ status.state = "ready"

\* C36: after a reload, once the render effect has run for the document it
\* opened, and as long as no step of a run torn down has resumed and
\* returned, every page in renderedPages has been rasterized to the end
\* since the reload.
C36_NothingCarriedOver ==
    (loadSeq > 1 /\ doc = liveLoad /\ activeRun # 0 /\ ~staleLeft) =>
        renderedPages \subseteq okPages

\* C37: no event of a gesture in which two or more fingers were down
\* together makes a touch handler call flipNext or flipPrev, in whatever
\* order the fingers are lifted.
C37_TwoFingersNeverFlip == ~(touch.multi /\ touch.flip # "none")

\* The scroll surface is on screen; two fingers were down together, on
\* either half, and have been lifted one after the other.
C37_Witness ==
    /\ canUseFlipbook(Cur)
    /\ touch.multi /\ touch.touches = {} /\ touch.ends = 2

\* C38: while a document is in place, renderedPages and inflightPages hold
\* page numbers of 1..numPages only, so neither has more than numPages
\* members, and a status Rendering{rendered, total} has 0 <= rendered <= total.
C38_SetsWithinDocument ==
    doc # 0 =>
        /\ renderedPages \subseteq 1..numPages
        /\ inflightPages \subseteq 1..numPages
        /\ Cardinality(renderedPages) <= numPages
        /\ Cardinality(inflightPages) <= numPages
        /\ status.state = "rendering" =>
                (0 <= status.rendered /\ status.rendered <= status.total)

\* The state after the ResizeObserver reported a container a fifth of a
\* pixel higher: the page box is computed anew and the render effect runs.
AfterSubPixelResize ==
    Commit(Cur, [Cur EXCEPT !.containerHeight = Fr(10 * @[1] + 2 * @[2], 10 * @[2])])

\* C39: a run of the render effect that finds the stored key (here after a
\* resize by a fraction of a pixel, taken in every reachable state) leaves
\* renderedPages, the widget and every canvas as they are, and the pass that
\* follows takes up no page that was rendered; in every step a pass takes up
\* only a page that is not in renderedPages, and a step that runs the effect
\* without changing the stored key removes no page from renderedPages.
C39_SameKeyKeepsPages ==
    /\ [](LET a == AfterSubPixelResize
          IN  (a.renderLoopId > renderLoopId /\ a.lastSizeKey = lastSizeKey) =>
                /\ a.renderedPages = renderedPages
                /\ a.canvasRefs = canvasRefs
                /\ a.flipbook = flipbook
                /\ \A t \in a.timers :
                        FreeSlotsOf(a) # {} =>
                            LET b == StartPass(a, t)
                            IN  \A i \in Slots :
                                    (a.passes[i].pc = "free" /\ b.passes[i].pc # "free")
                                        => b.passes[i].page \notin renderedPages)
    /\ [][/\ (renderLoopId' > renderLoopId /\ lastSizeKey' = lastSizeKey) =>
                renderedPages \subseteq renderedPages'
          /\ \A i \in Slots :
                (/\ passes'[i].pc # "free" /\ passes'[i].run = activeRun'
                 /\ (passes[i].pc = "free" \/ passes'[i].page # passes[i].page))
                    => passes'[i].page \notin renderedPages']_vars

\* Page 1 is rendered and drawn, page 2 is not; a resize by a fraction of a
\* pixel would run the effect again under the same key, and the pass after
\* it would take up page 2.
C39_Witness ==
    /\ renderedPages = {1} /\ canvasRefs[1] = Done(doc, 1, lastSizeKey)
    /\ inflightPages = {} /\ canvasRefs[2] = Blank
    /\ LET a == AfterSubPixelResize
       IN  /\ a.renderLoopId > renderLoopId /\ a.lastSizeKey = lastSizeKey
           /\ a.renderedPages = {1} /\ a.canvasRefs = canvasRefs
           /\ \E t \in a.timers, i \in Slots :
                    /\ FreeSlotsOf(a) # {}
                    /\ StartPass(a, t).passes[i].page = 2

\* The pages renderWindow wants around the position in pageIndexRef.
WantedNow ==
    LET w == renderWindowWant(numPages, pageIndexRef, isNarrow(Cur)).want
    IN  {w[k] : k \in 1..Len(w)}

\* C40: when the document is loaded, the widget shows its canvases, nothing
\* has failed and everything that was started has settled, every page of
\* the window around the position is in renderedPages.
C40_WindowGetsRendered ==
    (Settled /\ activeRun # 0 /\ canUseFlipbook(Cur) /\ flipbook.built) =>
        WantedNow \subseteq renderedPages

====
